---- MODULE Spec2Model ----
(***************************************************************************)
(* A model of the Enhanced MCP 2.0 trust-and-resilience pipeline:          *)
(*   - CollaborationManager.coordinateOperation and its lock handling     *)
(*     (src/unnamed/part_000, lines 414-495),                              *)
(*   - the DistributedLockManager it calls (acquire / release); only its  *)
(*     calls and the ResourceLock type are in the sources, its behaviour   *)
(*     is taken from the design document,                                  *)
(*   - EnhancedErrorHandler.handleError and the per-key circuit breaker    *)
(*     (src/unnamed/part_000, lines 130-154; the CircuitBreaker type is in *)
(*     src/mcp2_spec.md, lines 324-334).                                   *)
(*   - handleError one await at a time, attemptRecovery with its retry     *)
(*     loop, and createCheckpoint (src/unnamed/part_000, lines 134-212);   *)
(*     the state a checkpoint copies is a graph of objects in a heap,      *)
(*   - the recovery loop of the example workflow's catch block             *)
(*     (src/example.ts, lines 439-462 and 517-532),                        *)
(*   - SecurityFramework.authenticateRequest (src/unnamed/part_000,        *)
(*     lines 50-84 and 112-123).                                           *)
(* Time is the wall clock in milliseconds; it advances in steps of half a  *)
(* lease.                                                                  *)
(***************************************************************************)
EXTENDS Integers, Sequences, FiniteSets, TLC

\* ------------------------------------------------------------------ bounds
\* The clock advances at most MaxTicks times.
MaxTicks == 2

\* handleError is called at most MaxReports times.
MaxReports == 4
\* A breaker's failure_threshold is configured between 1 and MaxThreshold.
MaxThreshold == 3

\* A retry strategy's maxAttempts is at most MaxAttemptsBound.
MaxAttemptsBound == 4
\* createCheckpoint is called at most MaxCheckpoints times.
MaxCheckpoints == 2
\* The audit log is followed up to MaxAudit entries.
MaxAudit == 2
\* At most MaxEnvironments SandboxEnvironment objects are constructed.
MaxEnvironments == 3
\* handleMessage is called at most MaxMessages times.
MaxMessages == 3
\* executeWorkflow is called at most MaxRuns times, one call after the other.
MaxRuns == 2

\* ------------------------------------------------------ program constants
\* retryWithBackoff: strategy.maxAttempts || 3 and strategy.baseDelay || 1000.
DefaultMaxAttempts == 3
DefaultBaseDelay == 1000

\* acquireLocks: expires_at = Date.now() + 300000 (5 minutes).
LeaseDuration == 300000

\* One step of the clock: half a lease.
TickMs == LeaseDuration \div 2

\* ------------------------------------------------------------ input sets
\* resource ids; their order as integers is the lexicographic order of ids
Resources == {1, 2}
\* the resource lists an operation may declare (operation.resources)
ResourceLists == {<<1>>, <<2>>, <<1, 2>>, <<2, 1>>}
\* process.env.SYSTEM_ID of the instances that coordinate operations
Systems == {"sysA", "sysB"}
\* the coordinateOperation calls in flight
Ops == {"P", "Q"}
\* the state of a request's signature: none, accepted or rejected by the verifier
Signatures == {"absent", "valid", "invalid"}
\* the signatures of coordinated operations (an absent one never fails)
OpSignatures == {"valid", "invalid"}
LockTypes == {"shared", "exclusive"}
\* the keys of the circuit breakers (context.correlationId of a failure)
Keys == {"svc1", "svc2"}
\* the values a breaker's recovery_timeout is configured with
RecoveryTimeouts == {TickMs, 2 * TickMs}

\* the handleError calls that may be in flight together
Calls == {"h1", "h2", "h3"}
\* strategy.type of a recovery strategy ("skip" is not a case of the switch)
StrategyTypes == {"retry", "fallback", "rollback", "skip"}
\* strategy.baseDelay; 0 is a falsy one (absent or 0), which || replaces
BaseDelays == {0, 100}
\* strategy.backoffStrategy; "none" is an absent one
BackoffStrategies == {"exponential", "linear", "fixed", "none"}
\* the random part of a generated checkpoint id
Rands == {1, 2}
\* the values a field of the caller's state takes
Values == {0, 1}
\* operationId of createCheckpoint
OperationIds == {"op1"}
\* context.userId of a request: a known principal, an unknown one, or none
Users == {"u1", "u2"}
Principals == Users \cup {"u9", "none"}
ActionTypes == {"read", "write", "delete", "execute"}
\* config.id of a sandbox: `${workflowId}_${toolName}_${Date.now()}`
SandboxIds == {"sb1", "sb2"}
\* resources.execution_time_seconds of the workflow's two sandbox profiles
ExecutionTimes == {300, 600}
\* how long an operation runs, in seconds
Durations == {100, 400}
\* what sandbox.execute(operation) does: the operation's result comes back,
\* the operation or the backend throws, or the backend itself stops an
\* operation that overruns its envelope
BackendOutcomes == {"returns", "throws", "times_out"}
\* the tools of the file-analysis workflow, in the order of its steps
Tools == {"file_validator", "statistical_analyzer", "report_generator",
          "cloud_storage_uploader"}
\* the ids of the workflow's sandboxes, `${workflowId}_${toolName}_${Date.now()}`:
\* one per tool, since each tool is run once
WorkflowSandboxIds == Tools
\* every key the sandbox registry is used with
AllSandboxIds == SandboxIds \cup WorkflowSandboxIds
\* what a tool call gives: a result, a result that says the file is invalid
\* (file_validator), or an error
ToolOutcomes == {"returns", "returns_invalid", "throws"}
\* what requestConsent gives: a response with granted true or false, or an error
ConsentOutcomes == {"granted", "denied", "throws"}
\* message.id of an incoming message
MessageIds == {1, 2}
\* what generateCorrelationId() returns: `corr_${Date.now()}_${random}`
CorrelationIds == {"corr1", "corr2", "corr3"}
\* the keys the circuitBreakers map is used with
BreakerKeys == Keys \cup CorrelationIds
\* an awaited call returns or throws
CallOutcomes == {"returns", "throws"}

VARIABLES
  now,        \* Date.now()
  locks,      \* the lock table of the lock authority: a set of ResourceLock
  lastCall,   \* the last direct call on the lock manager and its result
  pc,         \* where each coordinateOperation call is
  opRes,      \* operation.resources
  opSys,      \* getSystemId() of the instance running the call
  opSig,      \* the state of the operation's signature
  idx,        \* the loop index of acquireLocks / releaseLocks
  acquired,   \* the local array `locks` of coordinateOperation
  pending,    \* how the try block ended (what finally will rethrow or return)
  outcome,    \* what the call returned or threw
  published,  \* the events the call published on the bus, in order
  relCount,   \* successful release calls, per operation and resource
  executed,   \* executeWithCoordination: not invoked, returned or threw
  gotAll,     \* acquireLocks returned: every declared resource was locked
  cbConfig,   \* failure_threshold and recovery_timeout the breakers are made with
  circuitBreakers, \* EnhancedErrorHandler.circuitBreakers: key -> CircuitBreaker
  probes,     \* per key, the probe requests in flight
  reports,    \* the number of handleError calls so far
  lastRequest, \* the last request that went through a breaker and what became of it
  hpc,        \* where each concurrent handleError call is
  hkey,       \* context.correlationId of each handleError call
  hout,       \* what each handleError call returned or threw
  reported,   \* per key, the failures handed to handleError so far
  wfPc,       \* where the workflow's catch block is
  wfError,    \* the EnhancedError handleError gave the workflow
  wfIdx,      \* the index of the recovery loop in error.recovery.automatic
  wfResult,   \* recovery_attempted in the workflow's result
  dispatched, \* recovery strategies whose action was started for wfError
  rpc,        \* where the attemptRecovery call in progress is
  strat,      \* the strategy of the last attemptRecovery call
  attempt,    \* the loop variable of retryWithBackoff
  invocations,\* calls of strategy.operation() made by the last attemptRecovery
  slept,      \* the delays retryWithBackoff slept, in order
  recResult,  \* what the last attemptRecovery returned or threw
  lastError,  \* the last attempt whose error retryWithBackoff caught (0: none)
  before,     \* the caller's state when the last rollback began
  heap,       \* the objects in memory: cells with a value and a child reference
  checkpoints,\* EnhancedErrorHandler.checkpoints: the stored Checkpoint records
  cpCalls,    \* the number of createCheckpoint calls so far
  permissions,\* SecurityFramework.permissions: principal -> Permission[]
  auditLog,   \* SecurityFramework.auditLog
  authResult, \* what the last authenticateRequest returned or threw
  sandboxes,  \* SecurityFramework.sandboxes: id -> SandboxEnvironment
  envCount,   \* the SandboxEnvironment objects constructed so far
  everRegistered, \* the ids a sandbox was registered under at some time
  sbCall,     \* the last call on the sandbox registry and its result
  handled,    \* the number of handleMessage calls so far
  failedRun,  \* per service, the failed messages since its last success
  srvCall,    \* the last handleMessage call and its reply
  wkPc,       \* where executeWorkflow is
  toolPc,     \* where the executeSecurely / executeInSandbox call in progress is
  toolResult, \* how the try block of that call ended
  consent,    \* the consent responses the workflow has received
  called,     \* the tools handed to callTool, in order
  ranIn,      \* the environments in which an operation was run, in order
  runs        \* the number of executeWorkflow calls so far

lockVars == <<locks, lastCall>>
opVars == <<pc, opRes, opSys, opSig, idx, acquired, pending, outcome,
            published, relCount, executed, gotAll>>
cbVars == <<cbConfig, circuitBreakers, probes, reports, lastRequest>>
hVars == <<hpc, hkey, hout, reported>>
wfVars == <<wfPc, wfError, wfIdx, wfResult, dispatched>>
rVars == <<rpc, strat, attempt, invocations, slept, recResult, lastError, before>>
cpVars == <<heap, checkpoints, cpCalls>>
authVars == <<permissions, auditLog, authResult>>
sbVars == <<sandboxes, envCount, everRegistered, sbCall>>
srvVars == <<handled, failedRun, srvCall>>
wkVars == <<wkPc, toolPc, toolResult, consent, called, ranIn, runs>>
\* the state of the components that take no part in lock coordination and
\* the breakers' request path
extVars == <<hVars, wfVars, rVars, cpVars, authVars, sbVars, srvVars, wkVars>>
vars == <<now, locks, lastCall, pc, opRes, opSys, opSig, idx, acquired,
          pending, outcome, published, relCount, executed, gotAll,
          cbConfig, circuitBreakers, probes, reports, lastRequest, extVars>>

Range(s) == {s[i] : i \in 1..Len(s)}

\* --------------------------------------------------------- lock authority
\* (a lock authority that never looks at expires_at)
Expired_Never(l, t) == FALSE

\* A lease is live until its expires_at.
Expired(l, t) == l.expires_at <= t

\* exclusive vs. any; shared vs. exclusive
Incompatible(t1, t2) == t1 = "exclusive" \/ t2 = "exclusive"

\* (a lock authority that lets a holder re-enter its own locks)
Conflicts_OtherHoldersOnly(req, table, t) ==
  {l \in table : /\ l.resource_id = req.resource_id
                 /\ l.holder # req.holder
                 /\ ~Expired(l, t)
                 /\ Incompatible(l.lock_type, req.lock_type)}

\* The unexpired locks on the request's resource that the request conflicts with.
Conflicts(req, table, t) ==
  {l \in table : /\ l.resource_id = req.resource_id
                 /\ ~Expired(l, t)
                 /\ Incompatible(l.lock_type, req.lock_type)}

\* DistributedLockManager.acquire: LockConflictError when an incompatible
\* unexpired lock is held; otherwise the lease is granted and the expired
\* leases on the resource are reclaimed.
AcquireOk(req, table, t) == Conflicts(req, table, t) = {}

AcquireTable(req, table, t) ==
  {l \in table : l.resource_id # req.resource_id \/ ~Expired(l, t)} \cup {req}

\* (a release that does not check who holds the lock)
ReleaseOk_AnyHolder(r, h, table) == \E l \in table : l.resource_id = r

\* DistributedLockManager.release: NotHolderError unless the caller holds a
\* lock on the resource.
ReleaseOk(r, h, table) == \E l \in table : l.resource_id = r /\ l.holder = h

ReleaseTable(r, h, table) ==
  {l \in table : ~(l.resource_id = r /\ l.holder = h)}

\* (an acquireLocks that asks for shared locks)
LockRequest_Shared(r, h, t, o) ==
  [resource_id |-> r, lock_type |-> "shared", holder |-> h,
   acquired_at |-> t, expires_at |-> t + LeaseDuration, call |-> o]

\* (an acquireLocks whose leases do not end within any run: expires_at is
\* optional in ResourceLock)
LockRequest_NoExpiry(r, h, t, o) ==
  [resource_id |-> r, lock_type |-> "exclusive", holder |-> h,
   acquired_at |-> t, expires_at |-> t + 1000 * LeaseDuration, call |-> o]

\* The request acquireLocks builds for one resource. The field `call` is not
\* in the program: it records which coordinateOperation call asked.
LockRequest(r, h, t, o) ==
  [resource_id |-> r, lock_type |-> "exclusive", holder |-> h,
   acquired_at |-> t, expires_at |-> t + LeaseDuration, call |-> o]

\* A direct request to the lock manager: built as acquireLocks builds its
\* requests, with the lock type the caller chooses.
ClientRequest(r, h, ty, t) ==
  [LockRequest(r, h, t, "direct") EXCEPT !.lock_type = ty]

NoCall == [kind |-> "none", resource_id |-> 0, holder |-> "none",
           lock_type |-> "none", result |-> "none", reclaimed |-> FALSE]

\* The call met an expired lease of another holder on the resource.
Reclaims(r, h, table, t) ==
  \E l \in table : l.resource_id = r /\ l.holder # h /\ Expired(l, t)

\* -------------------------------------------------------- circuit breakers
\* No entry in the circuitBreakers map.
NoBreaker == [state |-> "absent", current_failures |-> 0, last_failure_time |-> 0]

NoRequest == [key |-> "none", result |-> "none", invoked |-> FALSE]

\* A key without an entry behaves as a closed breaker without failures.
StateOf(cb, k) == IF cb[k].state = "absent" THEN "closed" ELSE cb[k].state

\* (a breaker that does not wait for recovery_timeout)
TimeoutElapsed_Always(b, cfg, t) == TRUE

\* recovery_timeout has elapsed since last_failure_time.
TimeoutElapsed(b, cfg, t) == t - b.last_failure_time >= cfg.recovery_timeout

\* updateCircuitBreaker(key, error): one more failure for the key's breaker.
\* Closed: count it, and open on reaching failure_threshold. Half-open: back
\* to open, the timeout restarts. Open: count it.
updateCircuitBreaker(cb, cfg, k, t) ==
  LET b == cb[k]
      n == b.current_failures + 1
  IN  CASE StateOf(cb, k) = "closed" ->
             [cb EXCEPT ![k] =
                IF n >= cfg.failure_threshold
                  THEN [state |-> "open", current_failures |-> n,
                        last_failure_time |-> t]
                  ELSE [state |-> "closed", current_failures |-> n,
                        last_failure_time |-> b.last_failure_time]]
        [] StateOf(cb, k) = "half_open" ->
             [cb EXCEPT ![k] = [state |-> "open", current_failures |-> n,
                                last_failure_time |-> t]]
        [] OTHER ->
             [cb EXCEPT ![k] = [b EXCEPT !.current_failures = n]]

\* A successful probe: closed, counters reset. A success that arrives when the
\* breaker is no longer half-open changes nothing.
recordProbeSuccess(cb, k) ==
  IF StateOf(cb, k) = "half_open"
    THEN [cb EXCEPT ![k] = [state |-> "closed", current_failures |-> 0,
                            last_failure_time |-> @.last_failure_time]]
    ELSE cb

\* (a breaker that lets requests through while it is open)
Admission_OpenPasses(cb, cfg, pr, k, t) ==
  CASE StateOf(cb, k) \in {"closed", "open"} -> "pass"
    [] OTHER -> "reject"

\* What the breaker does with a request: "pass" (closed), "probe" (open, the
\* timeout has elapsed and no probe is in flight) or "reject".
Admission(cb, cfg, pr, k, t) ==
  CASE StateOf(cb, k) = "closed" -> "pass"
    [] StateOf(cb, k) = "open" /\ TimeoutElapsed(cb[k], cfg, t) /\ pr[k] = 0 -> "probe"
    [] OTHER -> "reject"

\* ---------------------------------------------------------------- recovery
RECURSIVE Pow2(_)
\* Math.pow(2, n) for a natural n
Pow2(n) == IF n = 0 THEN 1 ELSE 2 * Pow2(n - 1)

\* (a backoff that grows linearly whatever the strategy)
calculateBackoffDelay_Linear(n, baseDelay, strategy) == baseDelay * n

\* calculateBackoffDelay(attempt, baseDelay, strategy)
calculateBackoffDelay(n, baseDelay, strategy) ==
  CASE strategy = "exponential" -> baseDelay * Pow2(n - 1)
    [] strategy = "linear" -> baseDelay * n
    [] OTHER -> baseDelay

\* strategy.maxAttempts || 3: a falsy maxAttempts (absent, 0) gives the default.
maxAttemptsOf(s) == IF s.maxAttempts = 0 THEN DefaultMaxAttempts ELSE s.maxAttempts

\* strategy.baseDelay || 1000
baseDelayOf(s) == IF s.baseDelay = 0 THEN DefaultBaseDelay ELSE s.baseDelay

\* The generated id of a checkpoint: cp_<Date.now()>_<random>.
generateCheckpointId(t, rnd) == [ts |-> t, rnd |-> rnd]

\* the ids generated while the clock stands at 0
CheckpointIds == [ts : {0}, rnd : Rands]

NoId == [ts |-> 0, rnd |-> 0]

NoStrategy == [type |-> "none", maxAttempts |-> 0, baseDelay |-> 0,
               backoffStrategy |-> "none", checkpoint |-> NoId]

\* the retry strategies a caller may pass
RetryStrategies ==
  [type : {"retry"}, maxAttempts : 0..MaxAttemptsBound, baseDelay : BaseDelays,
   backoffStrategy : BackoffStrategies, checkpoint : {NoId}]

\* the strategies of the other kinds: maxAttempts, baseDelay, backoffStrategy
\* are not read for them
OtherStrategies ==
  [type : StrategyTypes \ {"retry", "rollback"}, maxAttempts : {0}, baseDelay : {0},
   backoffStrategy : {"none"}, checkpoint : {NoId}]

RollbackStrategies ==
  [type : {"rollback"}, maxAttempts : {0}, baseDelay : {0},
   backoffStrategy : {"none"}, checkpoint : CheckpointIds]

\* the strategies in error.recovery.automatic of a workflow's error
Strategies ==
  RetryStrategies \cup OtherStrategies
    \cup {s \in RollbackStrategies : s.checkpoint.rnd = 1}

\* error.recovery.automatic: at most two options
OptionLists == {<<>>} \cup {<<a>> : a \in Strategies}
                 \cup {<<a, b>> : a \in Strategies, b \in OtherStrategies \cup
                          {s \in RetryStrategies : s.maxAttempts = 1 /\ s.baseDelay = 0
                                                   /\ s.backoffStrategy = "none"}}

NoError == [transient |-> FALSE, automatic |-> <<>>]

\* ------------------------------------------------------------- checkpoints
\* The caller's state object: the cell at LiveRoot and the cells below it.
LiveRoot == 1

\* the addresses of the cells: the caller's object and a clone of it for
\* every checkpoint
Addresses == 1..(2 * (MaxCheckpoints + 1))

RECURSIVE Value(_, _)
\* The value of the object at address a: its fields, nested objects included.
Value(h, a) == IF a = 0 THEN <<>> ELSE <<h[a].val, Value(h, h[a].child)>>

RECURSIVE CellsOf(_, _)
\* The cells the object at address a is made of.
CellsOf(h, a) == IF a = 0 THEN {} ELSE {a} \cup CellsOf(h, h[a].child)

\* (a copy that shares the caller's object)
structuredClone_Alias(h, a) == [heap |-> h, root |-> a]

\* (a copy of the top level that shares the nested objects: {...state})
structuredClone_Shallow(h, a) ==
  [heap |-> Append(h, h[a]), root |-> Len(h) + 1]

RECURSIVE structuredClone(_, _)
\* structuredClone(state): new cells for the object and every nested object.
structuredClone(h, a) ==
  IF a = 0
    THEN [heap |-> h, root |-> 0]
    ELSE LET sub == structuredClone(h, h[a].child)
             nh == Append(sub.heap, [val |-> h[a].val, child |-> sub.root])
         IN  [heap |-> nh, root |-> Len(nh)]

RECURSIVE Restore(_, _, _)
\* The fields of the object at src written into the object at dst.
Restore(h, dst, src) ==
  IF dst = 0 \/ src = 0
    THEN h
    ELSE Restore([h EXCEPT ![dst].val = h[src].val], h[dst].child, h[src].child)

\* ---------------------------------------------------------- authentication
\* The Permission records of the permission table.
PermRead == [resource |-> "docs", actions |-> {"read"}, auditRequired |-> FALSE]
PermWrite == [resource |-> "files", actions |-> {"read", "write"}, auditRequired |-> TRUE]
PermDelete == [resource |-> "tmp", actions |-> {"delete"}, auditRequired |-> FALSE]
PermExecute == [resource |-> "tools", actions |-> {"execute"}, auditRequired |-> TRUE]

PermissionLists ==
  {<<>>, <<PermRead>>, <<PermWrite>>, <<PermDelete>>, <<PermExecute>>,
   <<PermRead, PermWrite>>, <<PermDelete, PermExecute>>}

PermissionTables == [Users -> PermissionLists]

\* the requests: the state of the signature and context.userId
Messages == [signature : Signatures, userId : Principals]

\* getPermissions(userId): the principal's permissions, none for a principal
\* without an entry.
getPermissions(table, u) == IF u \in DOMAIN table THEN table[u] ELSE <<>>

\* (a risk policy that looks at write and delete before execute)
calculateRiskLevel_WriteFirst(perms) ==
  LET hasWriteAccess ==
        \E i \in 1..Len(perms) : perms[i].actions \cap {"write", "delete"} # {}
      hasExecuteAccess ==
        \E i \in 1..Len(perms) : "execute" \in perms[i].actions
  IN  IF hasWriteAccess THEN "high"
      ELSE IF hasExecuteAccess THEN "critical"
      ELSE "medium"

\* calculateRiskLevel(permissions): execute first, then write or delete.
calculateRiskLevel(perms) ==
  LET hasWriteAccess ==
        \E i \in 1..Len(perms) : perms[i].actions \cap {"write", "delete"} # {}
      hasExecuteAccess ==
        \E i \in 1..Len(perms) : "execute" \in perms[i].actions
  IN  IF hasExecuteAccess THEN "critical"
      ELSE IF hasWriteAccess THEN "high"
      ELSE "medium"

NoResult == [outcome |-> "none", authenticated |-> FALSE, permissions |-> <<>>,
             riskLevel |-> "none", requiresAudit |-> FALSE,
             signature |-> "none", userId |-> "none", error |-> "none"]

\* authenticateRequest, signature rejected: `throw new Error('Invalid
\* signature')`, thrown again by the catch block.
FailedResult(m) ==
  [outcome |-> "threw", authenticated |-> FALSE, permissions |-> <<>>,
   riskLevel |-> "none", requiresAudit |-> FALSE,
   signature |-> m.signature, userId |-> m.userId,
   error |-> "Invalid signature"]

\* (an unsigned request given the rights of its principal)
UnsignedResult_AsPrincipal(table, m) ==
  LET perms == getPermissions(table, m.userId) IN
  [outcome |-> "returned", authenticated |-> TRUE,
   permissions |-> [i \in 1..Len(perms) |-> perms[i].resource],
   riskLevel |-> calculateRiskLevel(perms),
   requiresAudit |-> \E i \in 1..Len(perms) : perms[i].auditRequired,
   signature |-> m.signature, userId |-> m.userId,
   error |-> "none"]

\* authenticateRequest, no signature: the backwards-compatible result.
UnsignedResult(table, m) ==
  [outcome |-> "returned", authenticated |-> TRUE,
   permissions |-> <<"read:public">>, riskLevel |-> "medium",
   requiresAudit |-> TRUE, signature |-> m.signature, userId |-> m.userId,
   error |-> "none"]

\* (an accepted signature refused when its principal has no permissions)
SignedResult_NeedsPermissions(table, m) ==
  LET perms == getPermissions(table, m.userId) IN
  IF perms = <<>>
    THEN FailedResult(m)
    ELSE [outcome |-> "returned", authenticated |-> TRUE,
          permissions |-> [i \in 1..Len(perms) |-> perms[i].resource],
          riskLevel |-> calculateRiskLevel(perms),
          requiresAudit |-> \E i \in 1..Len(perms) : perms[i].auditRequired,
          signature |-> m.signature, userId |-> m.userId, error |-> "none"]

\* (a result that asks for an audit only when every permission requires it)
SignedResult_AuditEvery(table, m) ==
  LET perms == getPermissions(table, m.userId) IN
  [outcome |-> "returned", authenticated |-> TRUE,
   permissions |-> [i \in 1..Len(perms) |-> perms[i].resource],
   riskLevel |-> calculateRiskLevel(perms),
   requiresAudit |-> \A i \in 1..Len(perms) : perms[i].auditRequired,
   signature |-> m.signature, userId |-> m.userId, error |-> "none"]

\* authenticateRequest, signature accepted by verifySignature.
SignedResult(table, m) ==
  LET perms == getPermissions(table, m.userId) IN
  [outcome |-> "returned", authenticated |-> TRUE,
   permissions |-> [i \in 1..Len(perms) |-> perms[i].resource],
   riskLevel |-> calculateRiskLevel(perms),
   requiresAudit |-> \E i \in 1..Len(perms) : perms[i].auditRequired,
   signature |-> m.signature, userId |-> m.userId,
   error |-> "none"]

\* The entry the catch block appends to the audit log.
AuditEntry(m, t) ==
  [timestamp |-> t, event |-> "authentication_failed",
   error |-> "Invalid signature", userId |-> m.userId]

\* ------------------------------------------------------------- sandboxes
\* config.resources: the wall-clock limit, and whether every limit is within
\* the system-wide caps (the caps themselves are no part of the program).
ResourceLimits == [execution_time_seconds : ExecutionTimes, withinCaps : BOOLEAN]

\* SandboxConfiguration
SandboxConfigs == [id : SandboxIds, resources : ResourceLimits]

NoResources == [execution_time_seconds |-> 0, withinCaps |-> TRUE]

\* sandboxes.get(id) of an id without an entry
NoSandbox == [env |-> 0, resources |-> NoResources]

\* new SandboxEnvironment(config): the n-th environment constructed
SandboxEnvironment(n, cfg) == [env |-> n, resources |-> cfg.resources]

NoSandboxCall ==
  [op |-> "none", id |-> "none", outcome |-> "none", error |-> "none",
   invoked |-> FALSE, env |-> 0, resources |-> NoResources, duration |-> 0]

\* ----------------------------------------------------------------- server
NoServerCall ==
  [id |-> 0, service |-> "none", correlationId |-> "none", auth |-> "none",
   processed |-> FALSE, handleError |-> "none", reply |-> "none",
   replyId |-> 0, replyError |-> "none"]

\* enhanceMessage(message): the message's own fields, and a new context that
\* has a correlationId and no userId.
enhanceMessage(sig) == [signature |-> sig, userId |-> "none"]

\* --------------------------------------------------------------- workflow
\* the tool each step of executeWorkflow runs
ToolOf(step) ==
  CASE step = "validate" -> "file_validator"
    [] step = "analyze" -> "statistical_analyzer"
    [] step = "report" -> "report_generator"
    [] step = "upload" -> "cloud_storage_uploader"
    [] OTHER -> "none"

ToolSteps == {"validate", "analyze", "report", "upload"}

\* the step after a tool step whose tool returned
StepAfter(step) ==
  CASE step = "validate" -> "consent_data"
    [] step = "analyze" -> "report"
    [] step = "report" -> "consent_cloud"
    [] OTHER -> "succeeded"

\* the limits of the sandbox a step asks for: the workflow's executeInSandbox
\* (statistical_analyzer) asks for 600 seconds, executeSecurely for 300
WorkflowResources(step) ==
  [execution_time_seconds |-> IF step = "analyze" THEN 600 ELSE 300,
   withinCaps |-> TRUE]

\* ------------------------------------------------------------------ Init
\* the configurations a breaker may be given
BreakerConfigs ==
  [failure_threshold : 1..MaxThreshold, recovery_timeout : RecoveryTimeouts]

\* The state after construction: empty maps, no call in flight. The breakers'
\* configuration is an input.
InitWith(cfgs) ==
  /\ cbConfig \in cfgs
  /\ now = 0
  /\ locks = {}
  /\ lastCall = NoCall
  /\ pc = [o \in Ops |-> "idle"]
  /\ opRes = [o \in Ops |-> <<>>]
  /\ opSys = [o \in Ops |-> "none"]
  /\ opSig = [o \in Ops |-> "none"]
  /\ idx = [o \in Ops |-> 0]
  /\ acquired = [o \in Ops |-> <<>>]
  /\ pending = [o \in Ops |-> "none"]
  /\ outcome = [o \in Ops |-> "none"]
  /\ published = [o \in Ops |-> <<>>]
  /\ relCount = [o \in Ops |-> [r \in Resources |-> 0]]
  /\ executed = [o \in Ops |-> "no"]
  /\ gotAll = [o \in Ops |-> FALSE]
  /\ circuitBreakers = [k \in BreakerKeys |-> NoBreaker]
  /\ probes = [k \in Keys |-> 0]
  /\ reports = 0
  /\ lastRequest = NoRequest
  /\ hpc = [c \in Calls |-> "idle"]
  /\ hkey = [c \in Calls |-> "none"]
  /\ hout = [c \in Calls |-> "none"]
  /\ reported = [k \in Keys |-> 0]
  /\ wfPc = "idle"
  /\ wfError = NoError
  /\ wfIdx = 0
  /\ wfResult = "none"
  /\ dispatched = 0
  /\ rpc = "idle"
  /\ strat = NoStrategy
  /\ attempt = 0
  /\ invocations = 0
  /\ slept = <<>>
  /\ recResult = "none"
  /\ lastError = 0
  /\ before = <<>>
  /\ heap = <<[val |-> 0, child |-> 2], [val |-> 0, child |-> 0]>>
  /\ checkpoints = {}
  /\ cpCalls = 0
  /\ auditLog = <<>>
  /\ authResult = NoResult
  /\ sandboxes = [id \in AllSandboxIds |-> NoSandbox]
  /\ envCount = 0
  /\ everRegistered = {}
  /\ sbCall = NoSandboxCall
  /\ handled = 0
  /\ failedRun = [k \in Keys |-> 0]
  /\ srvCall = NoServerCall
  /\ wkPc = "idle"
  /\ toolPc = "none"
  /\ toolResult = "none"
  /\ consent = [data |-> "none", cloud |-> "none"]
  /\ called = <<>>
  /\ ranIn = <<>>
  /\ runs = 0

\* a permission table without entries
NoPermissions == [u \in Users |-> <<>>]

Init ==
  /\ InitWith({[failure_threshold |-> MaxThreshold, recovery_timeout |-> TickMs]})
  /\ permissions = NoPermissions

InitBreaker == InitWith(BreakerConfigs) /\ permissions = NoPermissions

\* The permission table is an input.
InitAuth ==
  /\ InitWith({[failure_threshold |-> MaxThreshold, recovery_timeout |-> TickMs]})
  /\ permissions \in PermissionTables

\* ----------------------------------------------------------------- clock
Tick ==
  /\ now + TickMs <= MaxTicks * TickMs
  /\ now' = now + TickMs
  /\ UNCHANGED <<lockVars, opVars, cbVars, extVars>>

\* ------------------------------------------ direct calls on the lock manager
ClientAcquire(h, r, ty) ==
  LET req == ClientRequest(r, h, ty, now) IN
  /\ IF AcquireOk(req, locks, now)
       THEN /\ locks' = AcquireTable(req, locks, now)
            /\ lastCall' = [kind |-> "acquire", resource_id |-> r, holder |-> h,
                            lock_type |-> ty, result |-> "granted",
                            reclaimed |-> Reclaims(r, h, locks, now)]
       ELSE /\ locks' = locks
            /\ lastCall' = [kind |-> "acquire", resource_id |-> r, holder |-> h,
                            lock_type |-> ty, result |-> "LockConflictError",
                            reclaimed |-> FALSE]
  /\ UNCHANGED <<now, opVars, cbVars, extVars>>

ClientRelease(h, r) ==
  /\ IF ReleaseOk(r, h, locks)
       THEN /\ locks' = ReleaseTable(r, h, locks)
            /\ lastCall' = [kind |-> "release", resource_id |-> r, holder |-> h,
                            lock_type |-> "none", result |-> "released",
                            reclaimed |-> FALSE]
       ELSE /\ locks' = locks
            /\ lastCall' = [kind |-> "release", resource_id |-> r, holder |-> h,
                            lock_type |-> "none", result |-> "NotHolderError",
                            reclaimed |-> FALSE]
  /\ UNCHANGED <<now, opVars, cbVars, extVars>>

\* ------------------------------------------------- coordinateOperation
\* A call of coordinateOperation(operation) starts: acquireLocks begins its loop.
Begin(o) ==
  /\ pc[o] = "idle"
  /\ \E rs \in ResourceLists, s \in Systems, g \in OpSignatures :
       /\ opRes' = [opRes EXCEPT ![o] = rs]
       /\ opSys' = [opSys EXCEPT ![o] = s]
       /\ opSig' = [opSig EXCEPT ![o] = g]
  /\ pc' = [pc EXCEPT ![o] = "acquire"]
  /\ idx' = [idx EXCEPT ![o] = 1]
  /\ UNCHANGED <<now, lockVars, acquired, pending, outcome, published,
                 relCount, executed, gotAll, cbVars, extVars>>

\* One iteration of acquireLocks' loop, resources taken in declared order.
\* A LockConflictError leaves acquireLocks and coordinateOperation at once:
\* the call is outside the try block.
AcquireStep(o) ==
  /\ pc[o] = "acquire"
  /\ LET req == LockRequest(opRes[o][idx[o]], opSys[o], now, o) IN
     IF AcquireOk(req, locks, now)
       THEN /\ locks' = AcquireTable(req, locks, now)
            /\ acquired' = [acquired EXCEPT ![o] = Append(@, req)]
            /\ idx' = [idx EXCEPT ![o] = @ + 1]
            /\ pc' = [pc EXCEPT ![o] =
                        IF idx[o] = Len(opRes[o]) THEN "publish_started" ELSE "acquire"]
            /\ gotAll' = [gotAll EXCEPT ![o] = (idx[o] = Len(opRes[o]))]
            /\ UNCHANGED outcome
       ELSE /\ pc' = [pc EXCEPT ![o] = "done"]
            /\ outcome' = [outcome EXCEPT ![o] = "LockConflictError"]
            /\ acquired' = [acquired EXCEPT ![o] = <<>>]
            /\ idx' = [idx EXCEPT ![o] = 0]
            /\ UNCHANGED <<locks, gotAll>>
  /\ UNCHANGED <<now, lastCall, opRes, opSys, opSig, pending, published,
                 relCount, executed, cbVars, extVars>>

\* eventBus.publish(operation_started); a throw goes to the finally block.
PublishStarted(o) ==
  /\ pc[o] = "publish_started"
  /\ \/ /\ published' = [published EXCEPT ![o] = Append(@, "operation_started")]
        /\ pc' = [pc EXCEPT ![o] = "execute"]
        /\ UNCHANGED <<pending, idx>>
     \/ /\ pending' = [pending EXCEPT ![o] = "publish_error"]
        /\ pc' = [pc EXCEPT ![o] = "release"]
        /\ idx' = [idx EXCEPT ![o] = 1]
        /\ UNCHANGED published
  /\ UNCHANGED <<now, lockVars, opRes, opSys, opSig, acquired, outcome,
                 relCount, executed, gotAll, cbVars, extVars>>

\* (a coordinator that announces completion of an execution that threw)
Execute_PublishesOnError(o) ==
  /\ pc[o] = "execute"
  /\ \/ /\ executed' = [executed EXCEPT ![o] = "returned"]
        /\ pc' = [pc EXCEPT ![o] = "publish_completed"]
        /\ UNCHANGED <<pending, idx, published>>
     \/ /\ executed' = [executed EXCEPT ![o] = "threw"]
        /\ published' = [published EXCEPT ![o] = Append(@, "operation_completed")]
        /\ pending' = [pending EXCEPT ![o] = "execution_error"]
        /\ pc' = [pc EXCEPT ![o] = "release"]
        /\ idx' = [idx EXCEPT ![o] = 1]
  /\ UNCHANGED <<now, lockVars, opRes, opSys, opSig, acquired, outcome,
                 relCount, gotAll, cbVars, extVars>>

\* executeWithCoordination(operation): returns a result or throws.
Execute(o) ==
  /\ pc[o] = "execute"
  /\ \/ /\ executed' = [executed EXCEPT ![o] = "returned"]
        /\ pc' = [pc EXCEPT ![o] = "publish_completed"]
        /\ UNCHANGED <<pending, idx>>
     \/ /\ executed' = [executed EXCEPT ![o] = "threw"]
        /\ pending' = [pending EXCEPT ![o] = "execution_error"]
        /\ pc' = [pc EXCEPT ![o] = "release"]
        /\ idx' = [idx EXCEPT ![o] = 1]
  /\ UNCHANGED <<now, lockVars, opRes, opSys, opSig, acquired, outcome,
                 published, relCount, gotAll, cbVars, extVars>>

\* eventBus.publish(operation_completed), then `return result`.
PublishCompleted(o) ==
  /\ pc[o] = "publish_completed"
  /\ \/ /\ published' = [published EXCEPT ![o] = Append(@, "operation_completed")]
        /\ pending' = [pending EXCEPT ![o] = "result"]
     \/ /\ pending' = [pending EXCEPT ![o] = "publish_error"]
        /\ UNCHANGED published
  /\ pc' = [pc EXCEPT ![o] = "release"]
  /\ idx' = [idx EXCEPT ![o] = 1]
  /\ UNCHANGED <<now, lockVars, opRes, opSys, opSig, acquired, outcome,
                 relCount, executed, gotAll, cbVars, extVars>>

\* coordinateOperation ends (returns or throws): its locals are gone.
Return(o, how) ==
  /\ pc' = [pc EXCEPT ![o] = "done"]
  /\ outcome' = [outcome EXCEPT ![o] = how]
  /\ acquired' = [acquired EXCEPT ![o] = <<>>]
  /\ idx' = [idx EXCEPT ![o] = 0]
  /\ pending' = [pending EXCEPT ![o] = "none"]

\* One iteration of releaseLocks' loop in the finally block. A NotHolderError
\* leaves the loop and replaces whatever the try block ended with.
ReleaseStep(o) ==
  /\ pc[o] = "release"
  /\ LET lock == acquired[o][idx[o]] IN
     IF ReleaseOk(lock.resource_id, lock.holder, locks)
       THEN /\ locks' = ReleaseTable(lock.resource_id, lock.holder, locks)
            /\ relCount' = [relCount EXCEPT ![o][lock.resource_id] = @ + 1]
            /\ IF idx[o] = Len(acquired[o])
                 THEN Return(o, pending[o])
                 ELSE /\ idx' = [idx EXCEPT ![o] = @ + 1]
                      /\ UNCHANGED <<pc, outcome, acquired, pending>>
       ELSE /\ Return(o, "NotHolderError")
            /\ UNCHANGED <<locks, relCount>>
  /\ UNCHANGED <<now, lastCall, opRes, opSys, opSig, published, executed,
                 gotAll, cbVars, extVars>>

\* ---------------------------------------------------- EnhancedErrorHandler
\* (a handleError that returns without updating the breaker)
HandleError_SkipsBreaker(k) ==
  /\ reports < MaxReports
  /\ reports' = reports + 1
  /\ UNCHANGED <<circuitBreakers, now, lockVars, opVars, cbConfig, probes, lastRequest, extVars>>

\* handleError(error, context) with context.correlationId = k: builds the
\* EnhancedError and updates the breaker of the correlation id.
HandleError(k) ==
  /\ reports < MaxReports
  /\ reports' = reports + 1
  /\ circuitBreakers' = updateCircuitBreaker(circuitBreakers, cbConfig, k, now)
  /\ UNCHANGED <<now, lockVars, opVars, cbConfig, probes, lastRequest, extVars>>

\* A request for the service of key k goes through the breaker. Rejected: it
\* fails with CircuitOpenError and the service is not invoked. Passed: the
\* service is invoked; it succeeds, or fails and the failure is reported to
\* handleError. Probe: the breaker goes half-open and the probe is in flight.
Request(k) ==
  LET a == Admission(circuitBreakers, cbConfig, probes, k, now) IN
  /\ \/ /\ a = "reject"
        /\ lastRequest' = [key |-> k, result |-> "CircuitOpenError", invoked |-> FALSE]
        /\ UNCHANGED <<circuitBreakers, probes, reports>>
     \/ /\ a = "pass"
        /\ lastRequest' = [key |-> k, result |-> "succeeded", invoked |-> TRUE]
        /\ UNCHANGED <<circuitBreakers, probes, reports>>
     \/ /\ a = "pass"
        /\ reports < MaxReports
        /\ reports' = reports + 1
        /\ lastRequest' = [key |-> k, result |-> "failed", invoked |-> TRUE]
        /\ circuitBreakers' = updateCircuitBreaker(circuitBreakers, cbConfig, k, now)
        /\ UNCHANGED probes
     \/ /\ a = "probe"
        /\ lastRequest' = [key |-> k, result |-> "probing", invoked |-> TRUE]
        /\ circuitBreakers' = [circuitBreakers EXCEPT ![k].state = "half_open"]
        /\ probes' = [probes EXCEPT ![k] = @ + 1]
        /\ UNCHANGED reports
  /\ UNCHANGED <<now, lockVars, opVars, cbConfig, extVars>>

\* The probe in flight returns.
ProbeSucceeds(k) ==
  /\ probes[k] > 0
  /\ probes' = [probes EXCEPT ![k] = @ - 1]
  /\ circuitBreakers' = recordProbeSuccess(circuitBreakers, k)
  /\ UNCHANGED <<now, lockVars, opVars, cbConfig, reports, lastRequest, extVars>>

\* The probe in flight fails; the failure is reported to handleError.
ProbeFails(k) ==
  /\ probes[k] > 0
  /\ reports < MaxReports
  /\ reports' = reports + 1
  /\ probes' = [probes EXCEPT ![k] = @ - 1]
  /\ circuitBreakers' = updateCircuitBreaker(circuitBreakers, cbConfig, k, now)
  /\ UNCHANGED <<now, lockVars, opVars, cbConfig, lastRequest, extVars>>

\* ------------------------------------- handleError, one await at a time
\* handleError rejects with the error a helper threw: no statement of it is
\* in a try block.
HRaise(c) ==
  /\ hpc' = [hpc EXCEPT ![c] = "done"]
  /\ hout' = [hout EXCEPT ![c] = "raised"]

\* A failure with context.correlationId = k is handed to handleError: the
\* call runs to its first await, captureSystemState().
HBegin(c, k) ==
  /\ hpc[c] = "idle"
  /\ hpc' = [hpc EXCEPT ![c] = "capture"]
  /\ hkey' = [hkey EXCEPT ![c] = k]
  /\ reported' = [reported EXCEPT ![k] = @ + 1]
  /\ UNCHANGED <<now, lockVars, opVars, cbVars, hout, wfVars, rVars, cpVars,
                 authVars, sbVars, srvVars, wkVars>>

\* captureSystemState() settles; then generateRecoveryOptions() is awaited.
HCapture(c) ==
  /\ hpc[c] = "capture"
  /\ \/ hpc' = [hpc EXCEPT ![c] = "recovery"] /\ UNCHANGED hout
     \/ HRaise(c)
  /\ UNCHANGED <<now, lockVars, opVars, cbVars, hkey, reported, wfVars, rVars,
                 cpVars, authVars, sbVars, srvVars, wkVars>>

\* generateRecoveryOptions() settles; then classifyError(error) runs and
\* assessImpacts() is awaited.
HRecovery(c) ==
  /\ hpc[c] = "recovery"
  /\ \/ hpc' = [hpc EXCEPT ![c] = "impacts"] /\ UNCHANGED hout
     \/ HRaise(c)
  /\ UNCHANGED <<now, lockVars, opVars, cbVars, hkey, reported, wfVars, rVars,
                 cpVars, authVars, sbVars, srvVars, wkVars>>

\* classifyError(error) throws (determineCategory and the other helpers are
\* called without a try block).
HClassifyFails(c) ==
  /\ hpc[c] = "recovery"
  /\ hpc' = [hpc EXCEPT ![c] = "done"]
  /\ hout' = [hout EXCEPT ![c] = "raised_in_classification"]
  /\ UNCHANGED <<now, lockVars, opVars, cbVars, hkey, reported, wfVars, rVars,
                 cpVars, authVars, sbVars, srvVars, wkVars>>

\* assessImpacts() settles; then updateCircuitBreaker() is awaited.
HImpacts(c) ==
  /\ hpc[c] = "impacts"
  /\ \/ hpc' = [hpc EXCEPT ![c] = "update"] /\ UNCHANGED hout
     \/ HRaise(c)
  /\ UNCHANGED <<now, lockVars, opVars, cbVars, hkey, reported, wfVars, rVars,
                 cpVars, authVars, sbVars, srvVars, wkVars>>

\* updateCircuitBreaker(context.correlationId, error) settles: the failure is
\* counted in one step and handleError returns the EnhancedError, or the
\* update fails and handleError rejects.
HUpdate(c) ==
  /\ hpc[c] = "update"
  /\ \/ /\ circuitBreakers' =
             updateCircuitBreaker(circuitBreakers, cbConfig, hkey[c], now)
        /\ hpc' = [hpc EXCEPT ![c] = "done"]
        /\ hout' = [hout EXCEPT ![c] = "EnhancedError"]
     \/ HRaise(c) /\ UNCHANGED circuitBreakers
  /\ UNCHANGED <<now, lockVars, opVars, cbConfig, probes, reports, lastRequest,
                 hkey, reported, wfVars, rVars, cpVars, authVars, sbVars, srvVars, wkVars>>

\* ------------------------------------------------------- attemptRecovery
\* (a switch whose default case reports success)
attemptRecovery_DefaultTrue(e, s) ==
  /\ strat' = s
  /\ invocations' = 0
  /\ slept' = <<>>
  /\ lastError' = 0
  /\ before' = <<>>
  /\ heap' = heap
  /\ attempt' = IF s.type = "retry" THEN 1 ELSE 0
  /\ rpc' = CASE s.type = "retry" -> "attempt"
              [] s.type = "fallback" -> "fallback"
              [] OTHER -> "done"
  /\ recResult' = IF s.type \in {"retry", "fallback"} THEN "none" ELSE "true"

\* rollbackToCheckpoint(strategy): the caller's state is restored from the
\* snapshot of the named checkpoint; CheckpointNotFoundError when no
\* checkpoint has that id.
rollbackToCheckpoint(s) ==
  IF \E cp \in checkpoints : cp.id = s.checkpoint
    THEN LET cp == CHOOSE c \in checkpoints : c.id = s.checkpoint IN
         /\ heap' = Restore(heap, LiveRoot, cp.state_snapshot)
         /\ recResult' = "true"
    ELSE /\ heap' = heap
         /\ recResult' = "CheckpointNotFoundError"

\* attemptRecovery(error, strategy): the switch on strategy.type. Retry and
\* fallback go on in the steps below.
attemptRecovery(e, s) ==
  /\ strat' = s
  /\ invocations' = 0
  /\ slept' = <<>>
  /\ lastError' = 0
  /\ before' = IF s.type = "rollback" THEN Value(heap, LiveRoot) ELSE <<>>
  /\ CASE s.type = "retry" ->
            /\ rpc' = "attempt" /\ attempt' = 1 /\ recResult' = "none"
            /\ heap' = heap
       [] s.type = "fallback" ->
            /\ rpc' = "fallback" /\ attempt' = 0 /\ recResult' = "none"
            /\ heap' = heap
       [] s.type = "rollback" ->
            /\ rpc' = "done" /\ attempt' = 0
            /\ rollbackToCheckpoint(s)
       [] OTHER ->
            /\ rpc' = "done" /\ attempt' = 0 /\ recResult' = "false"
            /\ heap' = heap

\* (a retry that returns false when its last attempt fails)
RetryAttempt_Swallows ==
  /\ rpc = "attempt"
  /\ invocations' = invocations + 1
  /\ \/ /\ rpc' = "done" /\ recResult' = "true"
        /\ UNCHANGED lastError
     \/ /\ lastError' = attempt
        /\ IF attempt = maxAttemptsOf(strat)
             THEN rpc' = "done" /\ recResult' = "false"
             ELSE rpc' = "sleep" /\ UNCHANGED recResult
  /\ UNCHANGED <<now, lockVars, opVars, cbVars, hVars, wfVars, cpVars, authVars, sbVars, srvVars, wkVars,
                 strat, attempt, slept, before>>

\* retryWithBackoff: one attempt. strategy.operation() resolves and the retry
\* returns true; or it rejects, and the error is thrown again when this was
\* attempt maxAttempts, else the loop goes on to sleep.
RetryAttempt ==
  /\ rpc = "attempt"
  /\ invocations' = invocations + 1
  /\ \/ /\ rpc' = "done" /\ recResult' = "true"
        /\ UNCHANGED lastError
     \/ /\ lastError' = attempt
        /\ IF attempt = maxAttemptsOf(strat)
             THEN rpc' = "done" /\ recResult' = "raised"
             ELSE rpc' = "sleep" /\ UNCHANGED recResult
  /\ UNCHANGED <<now, lockVars, opVars, cbVars, hVars, wfVars, cpVars, authVars, sbVars, srvVars, wkVars,
                 strat, attempt, slept, before>>

\* retryWithBackoff: the sleep between two attempts.
RetrySleep ==
  /\ rpc = "sleep"
  /\ slept' = Append(slept, calculateBackoffDelay(attempt, baseDelayOf(strat),
                                                  strat.backoffStrategy))
  /\ attempt' = attempt + 1
  /\ rpc' = "attempt"
  /\ UNCHANGED <<now, lockVars, opVars, cbVars, hVars, wfVars, cpVars, authVars, sbVars, srvVars, wkVars,
                 strat, invocations, recResult, lastError, before>>

\* executeFallback(strategy): the alternate operation is run; its failure
\* propagates.
ExecuteFallback ==
  /\ rpc = "fallback"
  /\ invocations' = invocations + 1
  /\ rpc' = "done"
  /\ \/ recResult' = "true" /\ UNCHANGED lastError
     \/ recResult' = "raised" /\ lastError' = 1
  /\ UNCHANGED <<now, lockVars, opVars, cbVars, hVars, wfVars, cpVars, authVars, sbVars, srvVars, wkVars,
                 strat, attempt, slept, before>>

\* --------------------------------------- the workflow's catch block
\* executeWorkflow caught an error: handleError (correlationId = workflowId)
\* returns the EnhancedError e and counts the failure, or rejects.
WorkflowCatch(k, e) ==
  /\ wfPc = "idle"
  /\ \/ /\ circuitBreakers' = updateCircuitBreaker(circuitBreakers, cbConfig, k, now)
        /\ wfError' = e
        /\ wfPc' = "loop"
        /\ wfIdx' = 1
     \/ /\ wfPc' = "raised"
        /\ UNCHANGED <<circuitBreakers, wfError, wfIdx>>
  /\ UNCHANGED <<now, lockVars, opVars, cbConfig, probes, reports, lastRequest,
                 hVars, wfResult, dispatched, rVars, cpVars, authVars, sbVars, srvVars, wkVars>>

\* SecureFileAnalysisWorkflow.attemptRecovery: the next option of
\* error.recovery.automatic is handed to errorHandler.attemptRecovery.
TryOption ==
  /\ wfPc = "loop"
  /\ wfIdx <= Len(wfError.automatic)
  /\ attemptRecovery(wfError, wfError.automatic[wfIdx])
  /\ wfPc' = "await"
  /\ dispatched' = IF wfError.automatic[wfIdx].type \in {"retry", "fallback", "rollback"}
                     THEN dispatched + 1 ELSE dispatched
  /\ UNCHANGED <<now, lockVars, opVars, cbVars, hVars, wfError, wfIdx, wfResult,
                 checkpoints, cpCalls, authVars, sbVars, srvVars, wkVars>>

\* (a loop without a try block: an option that raises ends the loop)
OptionDone_StopsOnError ==
  /\ wfPc = "await"
  /\ rpc = "done"
  /\ IF recResult = "true"
       THEN /\ wfResult' = "true"
            /\ wfPc' = "returned"
            /\ UNCHANGED wfIdx
       ELSE IF recResult = "false"
         THEN /\ wfIdx' = wfIdx + 1
              /\ wfPc' = "loop"
              /\ UNCHANGED wfResult
         ELSE /\ wfPc' = "raised"
              /\ UNCHANGED <<wfIdx, wfResult>>
  /\ UNCHANGED <<now, lockVars, opVars, cbVars, hVars, wfError, dispatched,
                 rVars, cpVars, authVars, sbVars, srvVars, wkVars>>

\* errorHandler.attemptRecovery settled: true ends the loop; false or an
\* error (caught and logged) moves to the next option.
OptionDone ==
  /\ wfPc = "await"
  /\ rpc = "done"
  /\ IF recResult = "true"
       THEN /\ wfResult' = "true"
            /\ wfPc' = "returned"
            /\ UNCHANGED wfIdx
       ELSE /\ wfIdx' = wfIdx + 1
            /\ wfPc' = "loop"
            /\ UNCHANGED wfResult
  /\ UNCHANGED <<now, lockVars, opVars, cbVars, hVars, wfError, dispatched,
                 rVars, cpVars, authVars, sbVars, srvVars, wkVars>>

\* The loop is over: no option succeeded.
RecoveryLoopEnd ==
  /\ wfPc = "loop"
  /\ wfIdx > Len(wfError.automatic)
  /\ wfResult' = "false"
  /\ wfPc' = "returned"
  /\ UNCHANGED <<now, lockVars, opVars, cbVars, hVars, wfError, wfIdx,
                 dispatched, rVars, cpVars, authVars, sbVars, srvVars, wkVars>>

\* ------------------------------------------------------------ checkpoints
\* createCheckpoint(operationId, state): a Checkpoint with a generated id and
\* a clone of the caller's state is put in the map under its id. The fields
\* `orig` and `call` are not in the program: the value of the caller's state
\* at the call, and the number of the call.
createCheckpoint(op, rnd) ==
  /\ cpCalls < MaxCheckpoints
  /\ cpCalls' = cpCalls + 1
  /\ LET clone == structuredClone(heap, LiveRoot)
         cp == [id |-> generateCheckpointId(now, rnd), timestamp |-> now,
                operation |-> op, state_snapshot |-> clone.root,
                dependencies |-> <<>>,
                orig |-> Value(heap, LiveRoot), call |-> cpCalls + 1]
     IN  /\ heap' = clone.heap
         /\ checkpoints' = {c \in checkpoints : c.id # cp.id} \cup {cp}
  /\ UNCHANGED <<now, lockVars, opVars, cbVars, hVars, wfVars, rVars, authVars, sbVars, srvVars, wkVars>>

\* The caller writes a field of its state object, at the top or in a nested
\* object.
MutateState(a, v) ==
  /\ a \in CellsOf(heap, LiveRoot)
  /\ heap[a].val # v
  /\ heap' = [heap EXCEPT ![a].val = v]
  /\ UNCHANGED <<now, lockVars, opVars, cbVars, hVars, wfVars, rVars,
                 checkpoints, cpCalls, authVars, sbVars, srvVars, wkVars>>

\* attemptRecovery(error, strategy) called with a rollback strategy.
RollbackCall(s) ==
  /\ rpc \in {"idle", "done"}
  /\ attemptRecovery(NoError, s)
  /\ UNCHANGED <<now, lockVars, opVars, cbVars, hVars, wfVars, checkpoints,
                 cpCalls, authVars, sbVars, srvVars, wkVars>>

\* ---------------------------------------------------------- authentication
\* (a catch block that throws again without writing to the audit log)
authenticateRequest_NoAudit(m) ==
  /\ authResult' = IF m.signature = "absent" THEN UnsignedResult(permissions, m)
                   ELSE IF m.signature = "invalid" THEN FailedResult(m)
                   ELSE SignedResult(permissions, m)
  /\ auditLog' = auditLog
  /\ UNCHANGED <<now, lockVars, opVars, cbVars, hVars, wfVars, rVars, cpVars,
                 permissions, sbVars, srvVars, wkVars>>

\* (an audit log that keeps only the latest entry)
authenticateRequest_KeepsLatest(m) ==
  /\ IF m.signature = "invalid"
       THEN /\ authResult' = FailedResult(m)
            /\ auditLog' = <<AuditEntry(m, now)>>
       ELSE /\ authResult' = IF m.signature = "absent"
                               THEN UnsignedResult(permissions, m)
                               ELSE SignedResult(permissions, m)
            /\ auditLog' = auditLog
  /\ UNCHANGED <<now, lockVars, opVars, cbVars, hVars, wfVars, rVars, cpVars,
                 permissions, sbVars, srvVars, wkVars>>

\* authenticateRequest(message): an unsigned request gets the fixed result; a
\* signature the verifier rejects makes the call throw, after the catch block
\* has appended an audit entry; an accepted one gets the principal's rights.
authenticateRequest(m) ==
  /\ IF m.signature = "absent"
       THEN /\ authResult' = UnsignedResult(permissions, m)
            /\ auditLog' = auditLog
       ELSE IF m.signature = "invalid"
         THEN /\ Len(auditLog) < MaxAudit
              /\ authResult' = FailedResult(m)
              /\ auditLog' = Append(auditLog, AuditEntry(m, now))
         ELSE /\ authResult' = SignedResult(permissions, m)
              /\ auditLog' = auditLog
  /\ UNCHANGED <<now, lockVars, opVars, cbVars, hVars, wfVars, rVars, cpVars,
                 permissions, sbVars, srvVars, wkVars>>

\* ------------------------------------------------------- specifications
\* concurrent coordinateOperation calls of cooperating instances
Next ==
  \/ Tick
  \/ \E o \in Ops : Begin(o)
  \/ \E o \in Ops : AcquireStep(o)
  \/ \E o \in Ops : PublishStarted(o)
  \/ \E o \in Ops : Execute(o)
  \/ \E o \in Ops : PublishCompleted(o)
  \/ \E o \in Ops : ReleaseStep(o)

Spec == Init /\ [][Next]_vars

\* holders calling the lock manager directly
NextLock ==
  \/ Tick
  \/ \E h \in Systems, r \in Resources, ty \in LockTypes : ClientAcquire(h, r, ty)
  \/ \E h \in Systems, r \in Resources : ClientRelease(h, r)

SpecLock == Init /\ [][NextLock]_vars

\* failures reported to handleError and requests through the breakers
NextBreaker ==
  \/ Tick
  \/ \E k \in Keys : HandleError(k)
  \/ \E k \in Keys : Request(k)
  \/ \E k \in Keys : ProbeSucceeds(k)
  \/ \E k \in Keys : ProbeFails(k)

SpecBreaker == InitBreaker /\ [][NextBreaker]_vars

\* concurrent handleError calls
NextReport ==
  \/ \E c \in Calls, k \in Keys : HBegin(c, k)
  \/ \E c \in Calls : HCapture(c)
  \/ \E c \in Calls : HRecovery(c)
  \/ \E c \in Calls : HClassifyFails(c)
  \/ \E c \in Calls : HImpacts(c)
  \/ \E c \in Calls : HUpdate(c)

SpecReport == InitBreaker /\ [][NextReport]_vars

\* a workflow that failed and its recovery loop
NextRecovery ==
  \/ \E k \in Keys, t \in BOOLEAN, os \in OptionLists :
       WorkflowCatch(k, [transient |-> t, automatic |-> os])
  \/ TryOption
  \/ RetryAttempt
  \/ RetrySleep
  \/ ExecuteFallback
  \/ OptionDone
  \/ RecoveryLoopEnd

SpecRecovery == Init /\ [][NextRecovery]_vars

\* checkpoints taken of a state the caller goes on changing, and rollbacks
NextCheckpoint ==
  \/ \E op \in OperationIds, rnd \in Rands : createCheckpoint(op, rnd)
  \/ \E a \in Addresses, v \in Values : MutateState(a, v)
  \/ \E s \in RollbackStrategies : RollbackCall(s)

SpecCheckpoint == Init /\ [][NextCheckpoint]_vars

\* requests arriving at the authentication gate
NextAuth ==
  \/ \E m \in Messages : authenticateRequest(m)

SpecAuth == InitAuth /\ [][NextAuth]_vars

\* ------------------------------------------------------ sandbox registry
\* createSandbox(config): construct an environment, initialize it (the backend
\* may fail, and then nothing is registered), register it under config.id
\* with Map.set, which replaces an entry already there.
createSandbox(cfg, initOk) ==
  /\ envCount < MaxEnvironments
  /\ envCount' = envCount + 1
  /\ IF initOk
       THEN /\ sandboxes' = [sandboxes EXCEPT
                               ![cfg.id] = SandboxEnvironment(envCount + 1, cfg)]
            /\ everRegistered' = everRegistered \cup {cfg.id}
            /\ sbCall' = [op |-> "createSandbox", id |-> cfg.id,
                          outcome |-> "returned", error |-> "none",
                          invoked |-> FALSE, env |-> envCount + 1,
                          resources |-> cfg.resources, duration |-> 0]
       ELSE /\ sbCall' = [op |-> "createSandbox", id |-> cfg.id,
                          outcome |-> "threw", error |-> "initialize failed",
                          invoked |-> FALSE, env |-> envCount + 1,
                          resources |-> cfg.resources, duration |-> 0]
            /\ UNCHANGED <<sandboxes, everRegistered>>
  /\ UNCHANGED <<now, lockVars, opVars, cbVars, hVars, wfVars, rVars, cpVars,
                 authVars, srvVars, wkVars>>

\* (an executeInSandbox that runs the operation without an environment)
executeInSandbox_RunsAnyway(id, d, b) ==
  /\ sbCall' = [op |-> "executeInSandbox", id |-> id,
                outcome |-> "returned", error |-> "none", invoked |-> TRUE,
                env |-> sandboxes[id].env,
                resources |-> sandboxes[id].resources, duration |-> d]
  /\ UNCHANGED <<now, lockVars, opVars, cbVars, hVars, wfVars, rVars, cpVars,
                 authVars, srvVars, wkVars, sandboxes, envCount, everRegistered>>

\* executeInSandbox(sandboxId, operation): an id without an entry throws
\* before the operation is touched; otherwise the call is whatever
\* sandbox.execute(operation) does. The operation runs for d seconds; the
\* registry is not written.
executeInSandbox(id, d, b) ==
  /\ IF sandboxes[id] = NoSandbox
       THEN sbCall' = [op |-> "executeInSandbox", id |-> id,
                       outcome |-> "threw", error |-> "not found",
                       invoked |-> FALSE, env |-> 0,
                       resources |-> NoResources, duration |-> d]
       ELSE /\ b = "times_out" =>
                 d > sandboxes[id].resources.execution_time_seconds
            /\ sbCall' = [op |-> "executeInSandbox", id |-> id,
                          outcome |-> IF b = "returns" THEN "returned"
                                      ELSE "threw",
                          error |-> IF b = "returns" THEN "none"
                                    ELSE IF b = "throws" THEN "operation failed"
                                    ELSE "timeout",
                          invoked |-> TRUE, env |-> sandboxes[id].env,
                          resources |-> sandboxes[id].resources,
                          duration |-> d]
  /\ UNCHANGED <<now, lockVars, opVars, cbVars, hVars, wfVars, rVars, cpVars,
                 authVars, srvVars, wkVars, sandboxes, envCount, everRegistered>>

\* (a destroySandbox that refuses an id without an entry)
destroySandbox_Strict(id) ==
  /\ IF sandboxes[id] = NoSandbox
       THEN /\ sbCall' = [op |-> "destroySandbox", id |-> id,
                          outcome |-> "threw", error |-> "not found",
                          invoked |-> FALSE, env |-> 0,
                          resources |-> NoResources, duration |-> 0]
            /\ sandboxes' = sandboxes
       ELSE /\ sbCall' = [op |-> "destroySandbox", id |-> id,
                          outcome |-> "returned", error |-> "none",
                          invoked |-> FALSE, env |-> sandboxes[id].env,
                          resources |-> sandboxes[id].resources,
                          duration |-> 0]
            /\ sandboxes' = [sandboxes EXCEPT ![id] = NoSandbox]
  /\ UNCHANGED <<now, lockVars, opVars, cbVars, hVars, wfVars, rVars, cpVars,
                 authVars, srvVars, wkVars, envCount, everRegistered>>

\* destroySandbox(sandboxId): the entry of the id, if there is one, is removed
\* from the registry; an id without an entry is left as it is.
destroySandbox(id) ==
  /\ sbCall' = [op |-> "destroySandbox", id |-> id,
                outcome |-> "returned", error |-> "none",
                invoked |-> FALSE, env |-> sandboxes[id].env,
                resources |-> sandboxes[id].resources, duration |-> 0]
  /\ sandboxes' = [sandboxes EXCEPT ![id] = NoSandbox]
  /\ UNCHANGED <<now, lockVars, opVars, cbVars, hVars, wfVars, rVars, cpVars,
                 authVars, srvVars, wkVars, envCount, everRegistered>>

\* calls on the sandbox registry
NextSandbox ==
  \/ \E cfg \in SandboxConfigs, initOk \in BOOLEAN : createSandbox(cfg, initOk)
  \/ \E id \in SandboxIds, d \in Durations, b \in BackendOutcomes :
       executeInSandbox(id, d, b)
  \/ \E id \in SandboxIds : destroySandbox(id)

SpecSandbox == Init /\ [][NextSandbox]_vars

\* ---------------------------------------------------------------- server
\* handleMessage(message) for a message with id `id` that targets service
\* svc: enhanceMessage gives it the correlation id corr; authenticateRequest
\* returns or throws; processEnhancedMessage is called when it returned, and
\* returns or throws (proc); the catch block hands either error to
\* handleError with the message's context, which returns the EnhancedError
\* after counting the failure on the breaker of corr, or rejects (herr).
handleMessage(id, svc, sig, corr, proc, herr) ==
  LET m == enhanceMessage(sig)
      authThrows == sig = "invalid"
      caught == authThrows \/ proc = "throws"
      errorHandled == caught /\ herr = "returns"
  IN
  /\ handled < MaxMessages
  /\ handled' = handled + 1
  /\ IF sig = "absent"
       THEN /\ authResult' = UnsignedResult(permissions, m)
            /\ auditLog' = auditLog
       ELSE IF authThrows
         THEN /\ Len(auditLog) < MaxAudit
              /\ authResult' = FailedResult(m)
              /\ auditLog' = Append(auditLog, AuditEntry(m, now))
         ELSE /\ authResult' = SignedResult(permissions, m)
              /\ auditLog' = auditLog
  /\ circuitBreakers' =
       IF errorHandled
         THEN updateCircuitBreaker(circuitBreakers, cbConfig, corr, now)
         ELSE circuitBreakers
  /\ failedRun' = [failedRun EXCEPT ![svc] =
                     IF ~caught THEN 0
                     ELSE IF errorHandled THEN @ + 1 ELSE @]
  /\ srvCall' = [id |-> id, service |-> svc, correlationId |-> corr,
                 auth |-> IF authThrows THEN "threw" ELSE "returned",
                 processed |-> ~authThrows,
                 handleError |-> IF ~caught THEN "none"
                                 ELSE IF errorHandled THEN "EnhancedError"
                                 ELSE "raised",
                 reply |-> IF ~caught THEN "result"
                           ELSE IF errorHandled THEN "error" ELSE "rejected",
                 replyId |-> IF caught /\ ~errorHandled THEN 0 ELSE id,
                 replyError |-> IF errorHandled THEN corr ELSE "none"]
  /\ UNCHANGED <<now, lockVars, opVars, cbConfig, probes, reports, lastRequest,
                 hVars, wfVars, rVars, cpVars, permissions, sbVars, wkVars>>

\* ------------------------------------------------------------- workflow
\* executeWorkflow(filePath) is called, the first time or after an earlier
\* call has returned: step 1 begins with executeSecurely.
StartWorkflow ==
  /\ wkPc \in {"idle", "succeeded", "caught"}
  /\ runs < MaxRuns
  /\ runs' = runs + 1
  /\ wkPc' = "validate"
  /\ toolPc' = "create"
  /\ toolResult' = "none"
  /\ consent' = [data |-> "none", cloud |-> "none"]
  /\ called' = <<>>
  /\ UNCHANGED <<now, lockVars, opVars, cbVars, hVars, wfVars, rVars, cpVars,
                 authVars, sbVars, srvVars, ranIn>>

\* executeSecurely / executeInSandbox of the workflow, first statement:
\* securityFramework.createSandbox. Its error is outside the try block and
\* goes to the catch block of executeWorkflow.
ToolCreate(initOk) ==
  /\ toolPc = "create"
  /\ envCount' = envCount + 1
  /\ LET id == ToolOf(wkPc)
         cfg == [id |-> id, resources |-> WorkflowResources(wkPc)]
     IN IF initOk
          THEN /\ sandboxes' = [sandboxes EXCEPT
                                  ![id] = SandboxEnvironment(envCount + 1, cfg)]
               /\ everRegistered' = everRegistered \cup {id}
               /\ sbCall' = [op |-> "createSandbox", id |-> id,
                             outcome |-> "returned", error |-> "none",
                             invoked |-> FALSE, env |-> envCount + 1,
                             resources |-> cfg.resources, duration |-> 0]
               /\ toolPc' = "execute"
               /\ UNCHANGED wkPc
          ELSE /\ sbCall' = [op |-> "createSandbox", id |-> id,
                             outcome |-> "threw", error |-> "initialize failed",
                             invoked |-> FALSE, env |-> envCount + 1,
                             resources |-> cfg.resources, duration |-> 0]
               /\ toolPc' = "none"
               /\ wkPc' = "caught"
               /\ UNCHANGED <<sandboxes, everRegistered>>
  /\ UNCHANGED <<now, lockVars, opVars, cbVars, hVars, wfVars, rVars, cpVars,
                 authVars, srvVars, toolResult, consent, called, ranIn, runs>>

\* The try block: securityFramework.executeInSandbox(sandboxId, () =>
\* callTool(toolName, params)). The tool returns or throws; either way the
\* finally block is next.
ToolExecute(b) ==
  /\ toolPc = "execute"
  /\ b = "returns_invalid" => wkPc = "validate"
  /\ LET id == ToolOf(wkPc) IN
     IF sandboxes[id] = NoSandbox
       THEN /\ sbCall' = [op |-> "executeInSandbox", id |-> id,
                          outcome |-> "threw", error |-> "not found",
                          invoked |-> FALSE, env |-> 0,
                          resources |-> NoResources, duration |-> 0]
            /\ toolResult' = "throws"
            /\ UNCHANGED <<called, ranIn>>
       ELSE /\ sbCall' = [op |-> "executeInSandbox", id |-> id,
                          outcome |-> IF b = "throws" THEN "threw" ELSE "returned",
                          error |-> IF b = "throws" THEN "operation failed"
                                    ELSE "none",
                          invoked |-> TRUE, env |-> sandboxes[id].env,
                          resources |-> sandboxes[id].resources, duration |-> 0]
            /\ toolResult' = b
            /\ called' = Append(called, id)
            /\ ranIn' = Append(ranIn, sandboxes[id].env)
  /\ toolPc' = "destroy"
  /\ UNCHANGED <<now, lockVars, opVars, cbVars, hVars, wfVars, rVars, cpVars,
                 authVars, srvVars, sandboxes, envCount, everRegistered, wkPc,
                 consent, runs>>

\* (a teardown after the try block instead of in a finally block: it is
\* skipped when the tool threw)
ToolDestroy_OnlyOnSuccess ==
  /\ toolPc = "destroy"
  /\ LET id == ToolOf(wkPc) IN
       /\ sbCall' = IF toolResult = "throws" THEN sbCall
                    ELSE [op |-> "destroySandbox", id |-> id,
                          outcome |-> "returned", error |-> "none",
                          invoked |-> FALSE, env |-> sandboxes[id].env,
                          resources |-> sandboxes[id].resources, duration |-> 0]
       /\ sandboxes' = IF toolResult = "throws" THEN sandboxes
                       ELSE [sandboxes EXCEPT ![id] = NoSandbox]
  /\ toolPc' = IF toolResult = "returns" /\ StepAfter(wkPc) \in ToolSteps
                 THEN "create" ELSE "none"
  /\ wkPc' = IF toolResult = "returns" THEN StepAfter(wkPc) ELSE "caught"
  /\ UNCHANGED <<now, lockVars, opVars, cbVars, hVars, wfVars, rVars, cpVars,
                 authVars, srvVars, envCount, everRegistered, toolResult,
                 consent, called, ranIn, runs>>

\* The finally block: securityFramework.destroySandbox(sandboxId). Then the
\* call returns the tool's result to executeWorkflow, which goes on to its
\* next step (an invalid file makes it throw ValidationError), or the tool's
\* error goes to the catch block of executeWorkflow.
ToolDestroy ==
  /\ toolPc = "destroy"
  /\ LET id == ToolOf(wkPc) IN
       /\ sbCall' = [op |-> "destroySandbox", id |-> id,
                     outcome |-> "returned", error |-> "none",
                     invoked |-> FALSE, env |-> sandboxes[id].env,
                     resources |-> sandboxes[id].resources, duration |-> 0]
       /\ sandboxes' = [sandboxes EXCEPT ![id] = NoSandbox]
  /\ toolPc' = IF toolResult = "returns" /\ StepAfter(wkPc) \in ToolSteps
                 THEN "create" ELSE "none"
  /\ wkPc' = IF toolResult = "returns" THEN StepAfter(wkPc) ELSE "caught"
  /\ UNCHANGED <<now, lockVars, opVars, cbVars, hVars, wfVars, rVars, cpVars,
                 authVars, srvVars, envCount, everRegistered, toolResult,
                 consent, called, ranIn, runs>>

\* (a workflow that goes on whatever the consent response says)
Consent_IgnoresDenial(g) ==
  /\ wkPc \in {"consent_data", "consent_cloud"}
  /\ consent' = IF wkPc = "consent_data" THEN [consent EXCEPT !.data = g]
                ELSE [consent EXCEPT !.cloud = g]
  /\ wkPc' = IF g = "throws" THEN "caught"
             ELSE IF wkPc = "consent_data" THEN "analyze" ELSE "upload"
  /\ toolPc' = IF g = "throws" THEN "none" ELSE "create"
  /\ UNCHANGED <<now, lockVars, opVars, cbVars, hVars, wfVars, rVars, cpVars,
                 authVars, sbVars, srvVars, toolResult, called, ranIn, runs>>

\* Steps 2 and 5: humanInterface.requestConsent settles. Data processing:
\* without granted the workflow throws ConsentDeniedError. Cloud upload:
\* granted leads to the uploader, otherwise the report is saved locally.
Consent(g) ==
  /\ wkPc \in {"consent_data", "consent_cloud"}
  /\ consent' = IF wkPc = "consent_data" THEN [consent EXCEPT !.data = g]
                ELSE [consent EXCEPT !.cloud = g]
  /\ wkPc' = CASE g = "throws" -> "caught"
               [] g = "granted" /\ wkPc = "consent_data" -> "analyze"
               [] g = "granted" /\ wkPc = "consent_cloud" -> "upload"
               [] g = "denied" /\ wkPc = "consent_data" -> "caught"
               [] OTHER -> "save"
  /\ toolPc' = IF g = "granted" THEN "create" ELSE "none"
  /\ UNCHANGED <<now, lockVars, opVars, cbVars, hVars, wfVars, rVars, cpVars,
                 authVars, sbVars, srvVars, toolResult, called, ranIn, runs>>

\* saveLocally(report_path) returns the local path; the workflow returns
\* success.
SaveLocally ==
  /\ wkPc = "save"
  /\ wkPc' = "succeeded"
  /\ UNCHANGED <<now, lockVars, opVars, cbVars, hVars, wfVars, rVars, cpVars,
                 authVars, sbVars, srvVars, toolPc, toolResult, consent, called,
                 ranIn, runs>>

\* one run of the file-analysis workflow
NextWorkflow ==
  \/ StartWorkflow
  \/ \E initOk \in BOOLEAN : ToolCreate(initOk)
  \/ \E b \in ToolOutcomes : ToolExecute(b)
  \/ ToolDestroy
  \/ \E g \in ConsentOutcomes : Consent(g)
  \/ SaveLocally

SpecWorkflow == Init /\ [][NextWorkflow]_vars

\* messages arriving at the server
NextServer ==
  \/ \E id \in MessageIds, svc \in Keys, sig \in Signatures,
        corr \in CorrelationIds, proc \in CallOutcomes, herr \in CallOutcomes :
       handleMessage(id, svc, sig, corr, proc, herr)

SpecServer == Init /\ [][NextServer]_vars

\* ================================================================ claims
\* The unexpired locks a coordinateOperation call still has in the lock table.
LiveLocksOf(o) == {l \in locks : l.call = o /\ ~Expired(l, now)}

Sorted(s) == \A i, j \in 1..Len(s) : i < j => s[i] <= s[j]

\* C1: a coordinateOperation call that locked all its declared resources has,
\* when it finishes, released each of them (no unexpired lock of the call is
\* left in the lock table, none was released twice), however the try block
\* ended; and when execution threw, the call published exactly one
\* operation_started and no operation_completed.
C1_AllLocksReleasedAtEnd ==
  \A o \in Ops :
    (pc[o] = "done" /\ gotAll[o]) =>
      /\ LiveLocksOf(o) = {}
      /\ \A r \in Resources : relCount[o][r] <= 1
      /\ (executed[o] = "threw" => published[o] = <<"operation_started">>)

\* C2: no resource ever has two unexpired incompatible locks, and an acquire
\* made by a coordinateOperation call (which asks for an exclusive lock) while
\* an unexpired lock is held on the resource fails with LockConflictError and
\* grants nothing.
LiveIncompatiblePair ==
  \E l1, l2 \in locks :
    /\ l1 # l2
    /\ l1.resource_id = l2.resource_id
    /\ ~(l1.expires_at <= now) /\ ~(l2.expires_at <= now)
    /\ (l1.lock_type = "exclusive" \/ l2.lock_type = "exclusive")

HeldByOther(o) ==
  \E l \in locks : /\ l.resource_id = opRes[o][idx[o]]
                    /\ ~(l.expires_at <= now)

C2_NoIncompatibleLocks ==
  /\ [](~LiveIncompatiblePair)
  /\ [][\A o \in Ops :
         (AcquireStep(o) /\ HeldByOther(o)) =>
            (outcome'[o] = "LockConflictError" /\ locks' = locks)]_vars

C2_Witness ==
  \E o \in Ops :
    /\ outcome[o] = "LockConflictError"
    /\ \E l \in locks : /\ l.call # o /\ l.call \in Ops
                        /\ pc[l.call] # "done"
                        /\ l.resource_id \in Range(opRes[o])
                        /\ ~(l.expires_at <= now)

\* C3: a lease that has passed its expires_at never blocks a later acquirer:
\* every lease ends LeaseDuration after it was granted, and an acquire on a
\* resource all of whose leases have expired is granted, though their holders
\* never released them.
C3_ExpiredLeaseNeverBlocks ==
  /\ [](\A l \in locks : l.expires_at = l.acquired_at + LeaseDuration)
  /\ [][\A h \in Systems, r \in Resources, ty \in LockTypes :
       (/\ ClientAcquire(h, r, ty)
        /\ \A l \in locks : l.resource_id = r => l.expires_at <= now)
       => /\ lastCall'.result = "granted"
          /\ \E l \in locks' : /\ l.resource_id = r /\ l.holder = h
                               /\ l.lock_type = ty
                               /\ l.expires_at = now + LeaseDuration]_vars

\* B was granted a lock on a resource on which another holder's exclusive
\* lease had expired without a release.
C3_Witness ==
  /\ lastCall.kind = "acquire"
  /\ lastCall.result = "granted"
  /\ lastCall.reclaimed
  /\ \A l \in locks : l.resource_id = lastCall.resource_id
                         => l.holder = lastCall.holder

\* C4: release(resourceId, holder) by a caller that holds no lock on
\* resourceId fails with NotHolderError and leaves the lock table unchanged.
C4_ReleaseByNonHolderFails ==
  [][\A h \in Systems, r \in Resources :
       (/\ ClientRelease(h, r)
        /\ ~\E l \in locks : l.resource_id = r /\ l.holder = h)
       => (lastCall'.result = "NotHolderError" /\ locks' = locks)]_vars

\* A release failed on a resource that another holder has locked.
C4_Witness ==
  /\ lastCall.kind = "release"
  /\ lastCall.result = "NotHolderError"
  /\ \E l \in locks : /\ l.resource_id = lastCall.resource_id
                      /\ l.holder # lastCall.holder
                      /\ ~(l.expires_at <= now)

\* C5: the coordinator acquires an operation's locks in ascending order of
\* resourceId whatever the declared order, so two concurrent calls never end
\* with each holding a lock the other needs.
C5_LocksAcquiredInFixedOrder ==
  /\ \A o \in Ops : Sorted([i \in 1..Len(acquired[o]) |-> acquired[o][i].resource_id])
  /\ ~\E o1, o2 \in Ops :
        /\ o1 # o2
        /\ pc[o1] = "done" /\ pc[o2] = "done"
        /\ \E l \in LiveLocksOf(o1) : l.resource_id \in Range(opRes[o2])
        /\ \E l \in LiveLocksOf(o2) : l.resource_id \in Range(opRes[o1])

\* authenticateRequest throws exactly for a signature that is present and
\* that verifySignature rejects.
AuthFails(sig) == sig = "invalid"

\* C6: for an operation whose authentication fails, no lock is acquired, no
\* event is published and the operation is not executed.
C6_AuthenticatedBeforeAnythingElse ==
  \A o \in Ops :
    AuthFails(opSig[o]) =>
      /\ acquired[o] = <<>>
      /\ \A l \in locks : l.call # o
      /\ published[o] = <<>>
      /\ executed[o] = "no"

\* C7: when execution of a coordinated operation raised an error, the call
\* returns the EnhancedError made by handleError, not the raw error.
C7_ExecutionErrorBecomesEnhancedError ==
  \A o \in Ops :
    (pc[o] = "done" /\ executed[o] = "threw") => outcome[o] = "EnhancedError"


C9_OpenBreakerFailsFast ==
  [][\A k \in Keys :
       (/\ Request(k)
        /\ circuitBreakers[k].state = "open"
        /\ now - circuitBreakers[k].last_failure_time < cbConfig.recovery_timeout)
       => /\ lastRequest' = [key |-> k, result |-> "CircuitOpenError",
                              invoked |-> FALSE]
          /\ circuitBreakers' = circuitBreakers
          /\ probes' = probes]_vars

\* A request was rejected by a breaker that is open and still timing out.
C9_Witness ==
  /\ lastRequest.result = "CircuitOpenError"
  /\ ~lastRequest.invoked
  /\ circuitBreakers[lastRequest.key].state = "open"
  /\ now - circuitBreakers[lastRequest.key].last_failure_time
       < cbConfig.recovery_timeout

\* C10: a breaker changes state only closed -> open, open -> half_open (and
\* then recovery_timeout has elapsed since last_failure_time), half_open ->
\* closed (current_failures reset to 0) or half_open -> open (the timeout
\* restarts); a probe that succeeds on a half-open breaker closes it, one that
\* fails opens it; a half-open breaker has at most one probe in flight.
C10_BreakerTransitions ==
  /\ [](\A k \in Keys :
          StateOf(circuitBreakers, k) = "half_open" => probes[k] <= 1)
  /\ [][\A k \in Keys :
         LET s == StateOf(circuitBreakers, k)
             t == StateOf(circuitBreakers', k)
             b == circuitBreakers[k]
             c == circuitBreakers'[k]
         IN  /\ s # t =>
                  \/ s = "closed" /\ t = "open"
                  \/ /\ s = "open" /\ t = "half_open"
                     /\ now - b.last_failure_time >= cbConfig.recovery_timeout
                  \/ s = "half_open" /\ t = "closed" /\ c.current_failures = 0
                  \/ s = "half_open" /\ t = "open" /\ c.last_failure_time = now
             /\ (ProbeSucceeds(k) /\ s = "half_open") =>
                  (t = "closed" /\ c.current_failures = 0)
             /\ (ProbeFails(k) /\ s = "half_open") =>
                  (t = "open" /\ c.last_failure_time = now)]_vars

\* A breaker that had opened is closed again with its counter reset, after
\* its timeout elapsed and its probe succeeded.
C10_Witness ==
  \E k \in Keys :
    /\ circuitBreakers[k].state = "closed"
    /\ circuitBreakers[k].current_failures = 0
    /\ reports >= cbConfig.failure_threshold
    /\ now - circuitBreakers[k].last_failure_time >= cbConfig.recovery_timeout

\* C11: once the handleError calls for a key that ran concurrently have all
\* finished, the key's breaker has counted every failure handed to handleError,
\* no more and no fewer, and it is open exactly when that count has reached
\* failure_threshold.
C11_ConcurrentReportsAllCounted ==
  (\A c \in Calls : hpc[c] \in {"idle", "done"}) =>
    \A k \in Keys :
      /\ circuitBreakers[k].current_failures = reported[k]
      /\ (circuitBreakers[k].state = "open"
            <=> reported[k] >= cbConfig.failure_threshold)

\* C12: handleError never raises: every call that has finished returned an
\* EnhancedError, whichever helper failed on the way (a failed classification
\* gives category = unknown in the EnhancedError returned).
C12_HandleErrorNeverRaises ==
  \A c \in Calls : hpc[c] = "done" => hout[c] = "EnhancedError"

\* C13: a retry whose operation fails at every attempt calls the operation
\* exactly maxAttempts times (3 when the strategy gives no maxAttempts), sleeps
\* once between consecutive attempts and never after the last (maxAttempts - 1
\* sleeps), and then throws the error of the last attempt; it does not return
\* false.
C13_RetryExhaustsAttempts ==
  strat.type = "retry" =>
    LET n == IF strat.maxAttempts = 0 THEN 3 ELSE strat.maxAttempts IN
    /\ invocations <= n
    /\ rpc = "attempt" => Len(slept) = invocations
    /\ rpc = "sleep" => Len(slept) = invocations - 1
    /\ (rpc = "done" /\ lastError = invocations) =>
         /\ invocations = n
         /\ Len(slept) = n - 1
         /\ recResult = "raised"
         /\ lastError = n

\* exponential, baseDelay 100, maxAttempts 3, every attempt failed: three
\* attempts, sleeps of 100 and 200, the failure thrown.
C13_Witness ==
  /\ strat.type = "retry" /\ strat.maxAttempts = 3
  /\ strat.baseDelay = 100 /\ strat.backoffStrategy = "exponential"
  /\ rpc = "done" /\ recResult = "raised"
  /\ invocations = 3 /\ slept = <<100, 200>> /\ lastError = 3

\* C14: the delay slept after failed attempt n is baseDelay * 2^(n-1) for the
\* exponential strategy, baseDelay * n for the linear one and baseDelay for
\* every other strategy value (baseDelay being 1000 when the strategy gives
\* none); with baseDelay 100 and exponential the delays are 100, 200, 400.
C14_BackoffDelays ==
  strat.type = "retry" =>
    LET b == IF strat.baseDelay = 0 THEN 1000 ELSE strat.baseDelay IN
    /\ \A n \in 1..Len(slept) :
         slept[n] = CASE strat.backoffStrategy = "exponential" -> b * 2^(n - 1)
                      [] strat.backoffStrategy = "linear" -> b * n
                      [] OTHER -> b
    /\ (strat.baseDelay = 100 /\ strat.backoffStrategy = "exponential") =>
         \A n \in 1..Len(slept) : n <= 3 => slept[n] = <<100, 200, 400>>[n]

C14_Witness ==
  /\ strat.type = "retry"
  /\ strat.baseDelay = 100 /\ strat.backoffStrategy = "exponential"
  /\ slept = <<100, 200, 400>>

\* C15: attemptRecovery returns true only when the action of the strategy
\* completed successfully (retry: an attempt succeeded, and no attempt is made
\* after it; fallback: the alternate operation succeeded; rollback: the state
\* is the checkpoint's snapshot); for a strategy of any other kind it returns
\* false, raises nothing and runs no operation.
C15_TrueOnlyOnSuccess ==
  /\ [](rpc = "done" =>
         /\ recResult = "true" =>
              CASE strat.type = "retry" ->
                     invocations >= 1 /\ lastError < invocations
                [] strat.type = "fallback" ->
                     invocations = 1 /\ lastError = 0
                [] strat.type = "rollback" ->
                     \E cp \in checkpoints :
                       cp.id = strat.checkpoint /\ Value(heap, LiveRoot) = cp.orig
                [] OTHER -> FALSE
         /\ strat.type \notin {"retry", "fallback", "rollback"} =>
              recResult = "false" /\ invocations = 0)
  /\ [][recResult = "true" => invocations' <= invocations]_vars

\* The first option, of kind skip, returned false and the loop went on; the
\* second, a retry, succeeded at its first attempt.
C15_Witness ==
  /\ Len(wfError.automatic) = 2
  /\ wfError.automatic[1].type = "skip"
  /\ wfIdx = 2
  /\ strat = wfError.automatic[2]
  /\ strat.type = "retry"
  /\ rpc = "done" /\ recResult = "true" /\ invocations = 1

\* C19: for an error classified transient = false the workflow starts no
\* recovery strategy (no retry, fallback or rollback is handed to
\* attemptRecovery).
C19_RecoveryOnlyForTransient ==
  ~wfError.transient => dispatched = 0

\* C16: attemptRecovery with a rollback strategy leaves the caller's state
\* equal to the snapshot of the named checkpoint (the state as it was when
\* the checkpoint was taken) and returns true when a checkpoint with that id
\* is stored, and fails with CheckpointNotFoundError, changing no state, when
\* none is.
C16_RollbackRestoresOrFails ==
  [][\A s \in RollbackStrategies :
       RollbackCall(s) =>
         IF \E cp \in checkpoints : cp.id = s.checkpoint
           THEN /\ recResult' = "true"
                /\ \E cp \in checkpoints :
                     cp.id = s.checkpoint /\ Value(heap', LiveRoot) = cp.orig
           ELSE /\ recResult' = "CheckpointNotFoundError"
                /\ heap' = heap
                /\ checkpoints' = checkpoints]_vars

\* A rollback brought a state that had been changed since back to what the
\* checkpoint recorded.
C16_Witness ==
  /\ strat.type = "rollback"
  /\ rpc = "done" /\ recResult = "true"
  /\ before # Value(heap, LiveRoot)
  /\ \E cp \in checkpoints :
       cp.id = strat.checkpoint /\ Value(heap, LiveRoot) = cp.orig

\* C17: the snapshot of every stored checkpoint equals the caller's state as
\* it was at the createCheckpoint call, whatever the caller has written to
\* its state object since, at the top or in a nested object; the snapshot
\* shares no object with the caller's state.
C17_SnapshotIsIndependent ==
  \A cp \in checkpoints :
    /\ Value(heap, cp.state_snapshot) = cp.orig
    /\ CellsOf(heap, cp.state_snapshot) \cap CellsOf(heap, LiveRoot) = {}

\* A checkpoint is stored and the caller's state has since changed both at
\* the top and in the nested object.
C17_Witness ==
  \E cp \in checkpoints :
    /\ cp.orig[1] # heap[LiveRoot].val
    /\ cp.orig[2][1] # heap[heap[LiveRoot].child].val
    /\ Value(heap, cp.state_snapshot) = cp.orig

\* The number of checkpoints a retention policy would keep: fewer than the
\* createCheckpoint calls of a run.
RetentionLimit == MaxCheckpoints - 1

\* C18: the checkpoint store is bounded: after any sequence of
\* createCheckpoint calls it holds at most RetentionLimit checkpoints.
C18_CheckpointStoreBounded ==
  Cardinality(checkpoints) <= RetentionLimit

\* C20: for a request without a signature authenticate returns
\* authenticated = true, riskLevel = medium, requiresAudit = true and the
\* permissions [read:public], whatever the principal of the request and its
\* rights; it does not throw.
C20_UnsignedGetsPublicRead ==
  authResult.signature = "absent" =>
    /\ authResult.outcome = "returned"
    /\ authResult.authenticated
    /\ authResult.riskLevel = "medium"
    /\ authResult.requiresAudit
    /\ authResult.permissions = <<"read:public">>

\* An unsigned request of a principal who has an execute permission got
\* the public result.
C20_Witness ==
  /\ authResult.signature = "absent"
  /\ authResult.outcome = "returned"
  /\ authResult.userId \in Users
  /\ calculateRiskLevel(permissions[authResult.userId]) = "critical"
  /\ authResult.permissions = <<"read:public">>

\* ------------------------------------------------ claims: authentication
\* C21: for a request whose signature is present and rejected, authenticate
\* fails with the authentication error and the audit log grows by exactly
\* one entry, an authentication_failed entry for the request's principal.
C21_InvalidSignatureFailsAndAudits ==
  [][\A m \in Messages :
       (authenticateRequest(m) /\ m.signature = "invalid") =>
         /\ authResult'.outcome = "threw"
         /\ authResult'.error = "Invalid signature"
         /\ ~authResult'.authenticated
         /\ Len(auditLog') = Len(auditLog) + 1
         /\ auditLog'[Len(auditLog')].event = "authentication_failed"
         /\ auditLog'[Len(auditLog')].userId = m.userId]_vars

\* A request with a rejected signature has failed and left the first entry
\* of the audit log.
C21_Witness ==
  /\ authResult.outcome = "threw"
  /\ authResult.signature = "invalid"
  /\ Len(auditLog) = 1
  /\ auditLog[1].userId = authResult.userId

\* C22: authenticate fails only when a signature is present and rejected;
\* with an accepted signature it returns authenticated = true, also for an
\* unknown principal or one without permissions.
C22_FailsOnlyOnRejectedSignature ==
  /\ authResult.outcome = "threw" => authResult.signature = "invalid"
  /\ authResult.signature = "valid" =>
       /\ authResult.outcome = "returned"
       /\ authResult.authenticated
       /\ authResult.error = "none"

\* A signed request of a principal the permission table does not know was
\* authenticated with no permissions.
C22_Witness ==
  /\ authResult.signature = "valid"
  /\ authResult.userId \notin Users
  /\ authResult.outcome = "returned"
  /\ authResult.authenticated
  /\ authResult.permissions = <<>>

\* The permissions of the principal of the last request.
ResolvedPermissions == getPermissions(permissions, authResult.userId)

\* the action types of the resolved permissions
ResolvedActions ==
  UNION {ResolvedPermissions[i].actions : i \in 1..Len(ResolvedPermissions)}

\* C23: for a signed, accepted request the risk level is critical if any
\* resolved permission has an execute action, otherwise high if any has a
\* write or delete action, otherwise medium; it is never low.
C23_RiskLevelPolicy ==
  authResult.signature = "valid" =>
    /\ "execute" \in ResolvedActions => authResult.riskLevel = "critical"
    /\ ("execute" \notin ResolvedActions
          /\ ResolvedActions \cap {"write", "delete"} # {})
         => authResult.riskLevel = "high"
    /\ ResolvedActions \cap {"execute", "write", "delete"} = {}
         => authResult.riskLevel = "medium"
    /\ authResult.riskLevel # "low"

\* A principal holding a delete permission and an execute permission was
\* rated critical.
C23_Witness ==
  /\ authResult.signature = "valid"
  /\ {"delete", "execute"} \subseteq ResolvedActions
  /\ authResult.riskLevel = "critical"

\* C24: for a signed, accepted request requiresAudit is true exactly when
\* some resolved permission has auditRequired; with no permissions it is
\* false.
C24_RequiresAuditIffSomePermission ==
  authResult.signature = "valid" =>
    /\ authResult.requiresAudit <=>
         \E i \in 1..Len(ResolvedPermissions) :
            ResolvedPermissions[i].auditRequired
    /\ ResolvedPermissions = <<>> => ~authResult.requiresAudit

\* A principal with one audited and one unaudited permission got
\* requiresAudit.
C24_Witness ==
  /\ authResult.signature = "valid"
  /\ authResult.requiresAudit
  /\ \E i, j \in 1..Len(ResolvedPermissions) :
        /\ ResolvedPermissions[i].auditRequired
        /\ ~ResolvedPermissions[j].auditRequired

\* C25: the audit log is append-only: a call keeps every earlier entry in
\* place, adds one entry when it fails and none when it returns.
C25_AuditLogAppendOnly ==
  [][\A m \in Messages :
       authenticateRequest(m) =>
         /\ Len(auditLog') >= Len(auditLog)
         /\ \A i \in 1..Len(auditLog) : auditLog'[i] = auditLog[i]
         /\ authResult'.outcome = "threw" =>
              Len(auditLog') = Len(auditLog) + 1
         /\ authResult'.outcome = "returned" => auditLog' = auditLog]_vars

\* After two failed authentications a call returned and the log kept both
\* entries.
C25_Witness ==
  /\ Len(auditLog) = 2
  /\ authResult.outcome = "returned"

\* ---------------------------------------------------- claims: sandboxes
\* C26: createSandbox with an id that is already registered fails with the
\* conflict error and leaves the sandbox registered under that id as it was.
C26_DuplicateIdRejected ==
  [][\A cfg \in SandboxConfigs, initOk \in BOOLEAN :
       (createSandbox(cfg, initOk) /\ sandboxes[cfg.id] # NoSandbox) =>
         /\ sbCall'.outcome = "threw"
         /\ sbCall'.error = "conflict"
         /\ sandboxes' = sandboxes]_vars

\* C27: createSandbox with a limit above the system-wide caps fails with the
\* configuration error, initializes no environment and registers nothing;
\* no registered sandbox has limits above the caps.
C27_LimitsAboveCapsRejected ==
  /\ \A id \in SandboxIds :
       sandboxes[id] # NoSandbox => sandboxes[id].resources.withinCaps
  /\ (sbCall.op = "createSandbox" /\ ~sbCall.resources.withinCaps) =>
       /\ sbCall.outcome = "threw"
       /\ sbCall.error = "config"
       /\ sbCall.env = 0

\* C28: executeInSandbox with an id that is not registered, because it was
\* never created or was destroyed, fails with the not-found error, does not
\* invoke the operation and leaves the registry as it was.
C28_UnknownSandboxNotFound ==
  [][\A id \in SandboxIds, d \in Durations, b \in BackendOutcomes :
       (executeInSandbox(id, d, b) /\ sandboxes[id] = NoSandbox) =>
         /\ sbCall'.outcome = "threw"
         /\ sbCall'.error = "not found"
         /\ ~sbCall'.invoked
         /\ sandboxes' = sandboxes]_vars

\* executeInSandbox on the id of a destroyed sandbox failed with not found,
\* while another sandbox was registered.
C28_Witness ==
  /\ sbCall.op = "executeInSandbox"
  /\ sbCall.error = "not found"
  /\ ~sbCall.invoked
  /\ sbCall.id \in everRegistered
  /\ \E id \in SandboxIds : sandboxes[id] # NoSandbox

\* C29: an operation that runs longer than its sandbox's wall-clock limit is
\* cancelled, executeInSandbox fails with the timeout error, and the sandbox
\* is no longer registered afterwards.
C29_OverrunCancelledAndTornDown ==
  (/\ sbCall.op = "executeInSandbox"
   /\ sbCall.invoked
   /\ sbCall.duration > sbCall.resources.execution_time_seconds) =>
    /\ sbCall.outcome = "threw"
    /\ sbCall.error = "timeout"
    /\ sandboxes[sbCall.id] = NoSandbox

\* C30: destroySandbox is idempotent: it raises no error, the id has no entry
\* afterwards, no other entry changes, and on an id without an entry the
\* registry stays as it is.
C30_DestroyIdempotent ==
  [][\A id \in SandboxIds :
       destroySandbox(id) =>
         /\ sbCall'.outcome = "returned"
         /\ sandboxes'[id] = NoSandbox
         /\ \A other \in SandboxIds \ {id} : sandboxes'[other] = sandboxes[other]
         /\ sandboxes[id] = NoSandbox => sandboxes' = sandboxes]_vars

\* destroySandbox was called on the id of a sandbox destroyed before, found
\* no entry and returned, and the other sandbox is still registered.
C30_Witness ==
  /\ sbCall.op = "destroySandbox"
  /\ sbCall.outcome = "returned"
  /\ sbCall.env = 0
  /\ sbCall.id \in everRegistered
  /\ \E id \in SandboxIds : sandboxes[id] # NoSandbox

\* ------------------------------------------- claims: lock coordination
\* C31: when acquiring the lock on the k-th declared resource fails, every
\* lock the same call had acquired on the resources before it is released
\* before the error reaches the caller.
C31_PartialLocksReleased ==
  \A o \in Ops :
    (pc[o] = "done" /\ outcome[o] = "LockConflictError") => LiveLocksOf(o) = {}

\* C32: a release made by an operation in its finally path never removes an
\* unexpired lock that was granted to another operation.
C32_StaleReleaseKeepsOthersLock ==
  [][\A o \in Ops :
       ReleaseStep(o) =>
         \A l \in locks : (l.call # o /\ ~Expired(l, now)) => l \in locks']_vars

\* no successful release of the call so far
NothingReleased(o) == \A r \in Resources : relCount[o][r] = 0

\* C33: within one coordinateOperation call operation_started is published
\* after all locks were acquired and before execution starts,
\* operation_completed only after execution returned and before any lock is
\* released, and each of the two at most once.
C33_EventsOrdered ==
  /\ [](\A o \in Ops :
          /\ published[o] \in {<<>>, <<"operation_started">>,
                               <<"operation_started", "operation_completed">>}
          /\ published[o] # <<>> => gotAll[o]
          /\ executed[o] # "no" => published[o] # <<>>
          /\ Len(published[o]) = 2 => executed[o] = "returned")
  /\ [][\A o \in Ops :
          published'[o] # published[o] =>
            /\ NothingReleased(o)
            /\ Len(published[o]) = 0 => executed[o] = "no"
            /\ Len(published[o]) = 1 => executed[o] = "returned"]_vars

\* A call over two resources published both events and then released both
\* locks.
C33_Witness ==
  \E o \in Ops :
    /\ pc[o] = "done"
    /\ Len(opRes[o]) = 2
    /\ published[o] = <<"operation_started", "operation_completed">>
    /\ \A r \in Resources : relCount[o][r] = 1

\* C38: when releasing one of an operation's locks fails, the coordinator
\* still releases every remaining lock of the operation.
C38_FailedReleaseFreesTheRest ==
  \A o \in Ops :
    (pc[o] = "done" /\ outcome[o] = "NotHolderError") => LiveLocksOf(o) = {}

\* ------------------------------------------------------- claims: server
\* C34: the failures of successive messages to one service are counted on one
\* and the same breaker: after failure_threshold failed messages in a row to
\* a service, a breaker that counted them all is open.
C34_ServiceFailuresShareBreaker ==
  \A svc \in Keys :
    failedRun[svc] >= cbConfig.failure_threshold =>
      \E k \in BreakerKeys :
        /\ circuitBreakers[k].state = "open"
        /\ circuitBreakers[k].current_failures >= failedRun[svc]

\* C40: handleMessage processes a message only after authenticateRequest
\* returned for it; when authentication raised, the message is not processed
\* and the reply is an error response with the id of the message and the
\* EnhancedError that handleError made.
C40_ProcessedOnlyWhenAuthenticated ==
  /\ srvCall.processed => srvCall.auth = "returned"
  /\ srvCall.auth = "threw" =>
       /\ ~srvCall.processed
       /\ srvCall.reply = "error"
       /\ srvCall.replyId = srvCall.id
       /\ srvCall.handleError = "EnhancedError"
       /\ srvCall.replyError = srvCall.correlationId

\* ---------------------------------------------- claims: checkpoint store
\* C35: a stored checkpoint is never changed or replaced: every call of
\* createCheckpoint stores under an id not used before and leaves every
\* checkpoint stored earlier in the map as it was.
C35_CheckpointsNeverReplaced ==
  [][\A op \in OperationIds, rnd \in Rands :
       createCheckpoint(op, rnd) =>
         /\ \A c \in checkpoints : c.id # generateCheckpointId(now, rnd)
         /\ checkpoints \subseteq checkpoints']_vars

\* ------------------------------------------------- claims: recovery loop
\* C36: the workflow's recovery loop hands the automatic options to
\* attemptRecovery in list order, returns true at the first one that returns
\* true, goes on to the next when one returns false or raises, and returns
\* false only after every option was tried.
C36_RecoveryLoopTriesInOrder ==
  /\ [](/\ (wfPc = "returned" /\ wfResult = "true") =>
             (/\ recResult = "true"
              /\ wfIdx \in 1..Len(wfError.automatic)
              /\ strat = wfError.automatic[wfIdx])
        /\ (wfPc = "returned" /\ wfResult = "false") =>
             wfIdx = Len(wfError.automatic) + 1
        /\ wfPc = "await" =>
             (/\ wfIdx \in 1..Len(wfError.automatic)
              /\ strat = wfError.automatic[wfIdx]))
  /\ [][(wfPc = "await" /\ wfPc' # "await") =>
          IF recResult = "true"
            THEN wfPc' = "returned" /\ wfResult' = "true"
            ELSE /\ recResult \in {"false", "raised", "CheckpointNotFoundError"}
                 /\ wfPc' = "loop"
                 /\ wfIdx' = wfIdx + 1
                 /\ wfResult' = wfResult]_vars

\* The first option, a rollback, raised CheckpointNotFoundError; the loop went
\* on to the second option, which succeeded, and returned true.
C36_Witness ==
  /\ wfPc = "returned"
  /\ wfResult = "true"
  /\ wfIdx = 2
  /\ wfError.automatic[1].type = "rollback"
  /\ checkpoints = {}
  /\ recResult = "true"

\* ----------------------------------------------------- claims: workflow
\* the sandboxes of the workflow that are registered
RegisteredWorkflowSandboxes ==
  {id \in WorkflowSandboxIds : sandboxes[id] # NoSandbox}

\* C37: every sandbox created by the workflow's executeSecurely or
\* executeInSandbox is destroyed before that call finishes, whether the tool
\* returned or threw, and runs at most one operation.
C37_WorkflowSandboxesTornDown ==
  /\ toolPc = "none" => RegisteredWorkflowSandboxes = {}
  /\ toolPc = "create" => RegisteredWorkflowSandboxes = {}
  /\ \A i, j \in 1..Len(ranIn) : i # j => ranIn[i] # ranIn[j]
  /\ Cardinality(RegisteredWorkflowSandboxes) <= 1

\* The sandbox of a tool was created, the tool threw, and the workflow is in
\* its catch block with no sandbox registered.
C37_Witness ==
  /\ wkPc = "caught"
  /\ toolResult = "throws"
  /\ sbCall.op = "destroySandbox"
  /\ sbCall.env # 0
  /\ Len(called) = 2
  /\ RegisteredWorkflowSandboxes = {}

\* C39: a consent-gated tool is never invoked without granted consent:
\* statistical_analyzer only after the data-processing consent was granted,
\* cloud_storage_uploader only after the cloud-upload consent was granted;
\* when cloud consent is denied the report is saved locally and the workflow
\* succeeds; when data-processing consent is denied no later tool runs.
C39_ConsentGatesTools ==
  /\ "statistical_analyzer" \in Range(called) => consent.data = "granted"
  /\ "cloud_storage_uploader" \in Range(called) => consent.cloud = "granted"
  /\ consent.cloud = "denied" =>
       /\ wkPc \in {"save", "succeeded"}
       /\ "cloud_storage_uploader" \notin Range(called)
  /\ consent.data # "granted" =>
       Range(called) \subseteq {"file_validator"}
  /\ consent.data = "denied" => wkPc = "caught"

\* Cloud consent was denied after the report was made, and the workflow
\* succeeded without the uploader.
C39_Witness ==
  /\ consent.data = "granted"
  /\ consent.cloud = "denied"
  /\ wkPc = "succeeded"
  /\ called = <<"file_validator", "statistical_analyzer", "report_generator">>

====
